---- MODULE Spec2Model ----
(***************************************************************************)
(* Ledger posting and reversal engine of the idil sales module:            *)
(* salesperson sale orders, their receipts, sale returns, single and bulk  *)
(* receipt payments and stock adjustments.                                 *)
(*                                                                         *)
(* Quantities are integers.  Money is an integer number of 1/Scale units,  *)
(* so that a percentage discount and a percentage commission rate stay     *)
(* exact: amount * Scale is what the Float field of the program holds.     *)
(*                                                                         *)
(* A handler is one action.  Writes a handler performs before it raises    *)
(* stay in the state (the handlers contain no rollback of their own); a    *)
(* call into the ORM (super().create / super().write) that raises inside a *)
(* nested line handler is taken to fail as a whole.  lastop records what   *)
(* the last handler was called with and how it ended.                      *)
(***************************************************************************)
EXTENDS Integers, Sequences, FiniteSets, Bags, TLC

\* ------------------------------------------------------------ bounds ----
Scale == 100 * 100
Eps == Scale \div 100
MaxOrders == 2
MaxReturns == 2
MaxQty == 2
InitStock == 3
MaxBookings == 4
MaxBulks == 1
MaxAdjustments == 2
MaxLines == 2

Prices == {5}
ManualCommissions == {2 * Scale}

\* ---------------------------------------------------------- helpers ----
RECURSIVE SumSeq(_)
SumSeq(s) == IF s = << >> THEN 0 ELSE Head(s) + SumSeq(Tail(s))

SeqMap(s, f(_)) == [i \in 1..Len(s) |-> f(s[i])]

\* a table whose rows the handlers never order: a bag of rows
RECURSIVE SeqToBag(_)
SeqToBag(s) == IF s = << >> THEN EmptyBag ELSE SetToBag({Head(s)}) (+) SeqToBag(Tail(s))
BagSelect(b, keep(_)) == [e \in {x \in DOMAIN b : keep(x)} |-> b[e]]

Min(a, b) == IF a <= b THEN a ELSE b
Max(a, b) == IF a >= b THEN a ELSE b
Abs(a) == IF a < 0 THEN 0 - a ELSE a

\* --------------------------------------------------------- products ----
\* my_product.product as the handlers read it: the commission flag and rate
\* (percent), the quantity-discount flag and percentage, the unit cost and
\* whether the bill-of-cost currency is USD.  rate is the exchange rate the
\* documents of the day compute.
\* the chart accounts a posting reads off the product (asset, income, COGS,
\* sales commission, sales discount) and off the salesperson (receivable):
\* set and in the receivable's currency ("ok"), not set ("missing"), or set
\* in another currency ("foreign")
AccountNames == {"receivable", "asset", "income", "cogs", "commission", "discount"}
good_accounts == [a \in AccountNames |-> "ok"]

ProductConfigs ==
  { [is_sales_commissionable |-> FALSE, commission |-> 0, is_quantity_discount |-> FALSE,
     discount |-> 0, cost |-> 3, usd |-> FALSE, rate |-> 1, accounts |-> good_accounts],
    [is_sales_commissionable |-> TRUE, commission |-> 50, is_quantity_discount |-> FALSE,
     discount |-> 0, cost |-> 3, usd |-> TRUE, rate |-> 2, accounts |-> good_accounts],
    [is_sales_commissionable |-> FALSE, commission |-> 50, is_quantity_discount |-> FALSE,
     discount |-> 0, cost |-> 3, usd |-> FALSE, rate |-> 1, accounts |-> good_accounts],
    [is_sales_commissionable |-> FALSE, commission |-> 0, is_quantity_discount |-> TRUE,
     discount |-> 50, cost |-> 0, usd |-> FALSE, rate |-> 1, accounts |-> good_accounts],
    [is_sales_commissionable |-> TRUE, commission |-> 0, is_quantity_discount |-> FALSE,
     discount |-> 0, cost |-> 3, usd |-> FALSE, rate |-> 1, accounts |-> good_accounts] }

VARIABLES
  product,        \* the product's configuration (fixed after Init)
  stock_quantity, \* my_product.product.stock_quantity
  orders,         \* idil.sale.order: id -> record, with its order_lines
  receipts,       \* idil.sales.receipt: id -> record
  payments,       \* idil.sales.payment: id -> record
  returns,        \* idil.sale.return: id -> record, with its return_lines
  bookings,       \* idil.transaction_booking: id -> header
  blines,         \* idil.transaction_bookingline rows: booking id -> rows in creation order
  movements,      \* idil.product.movement rows (a bag)
  sptrans,        \* idil.salesperson.transaction rows (a bag)
  bulks,          \* idil.receipt.bulk.payment: id -> record
  item_quantity,  \* idil.item.quantity
  adjustments,    \* idil.stock.adjustment: id -> record
  nextid,         \* next database id per table
  lastop          \* the last handler call and its outcome

vars == << product, stock_quantity, orders, receipts, payments, returns, bookings,
           blines, movements, sptrans, bulks, item_quantity, adjustments, nextid,
           lastop >>

Tables == {"order", "receipt", "payment", "return", "booking", "bulk", "adjustment"}

\* ------------------------------------------- sale order line fields ----
\* SaleOrderLine._compute_discount_quantity, in 1/100 of a unit
discount_quantity(p, quantity) ==
  IF p.is_quantity_discount THEN p.discount * quantity ELSE 0

\* SaleOrderLine._compute_discount_amount
discount_amount(p, quantity, price_unit) ==
  discount_quantity(p, quantity) * price_unit * 100

\* SaleOrderLine._compute_commission_amount: the value it stores when it does
\* not raise
compute_commission_amount(p, quantity, price_unit) ==
  IF p.is_sales_commissionable
  THEN (100 * quantity - discount_quantity(p, quantity)) * p.commission * price_unit
  ELSE 0

\* SaleOrderLine._compute_commission_amount raises for a commissionable
\* product without a valid commission rate
commission_config_error(p) == p.is_sales_commissionable /\ p.commission <= 0

\* SaleOrderLine._compute_subtotal
line_subtotal(p, l) ==
  Scale * l.quantity * l.price_unit
  - discount_amount(p, l.quantity, l.price_unit)
  - l.commission_amount

\* SaleOrder._compute_order_total
order_total(p, o) == SumSeq(SeqMap(o.order_lines, LAMBDA l : line_subtotal(p, l)))

product_cost_amount_unconverted(p, quantity) ==
  Scale * p.cost * quantity

\* product.cost * quantity, times the rate for a USD bill-of-cost currency
product_cost_amount(p, quantity) ==
  IF p.usd THEN Scale * p.cost * quantity * p.rate ELSE Scale * p.cost * quantity

\* ---------------------------------------------------- booking lines ----
BLine(booking, account, dr, cr, ret) ==
  [booking |-> booking, account |-> account, dr_amount |-> dr, cr_amount |-> cr,
   sale_return_id |-> ret, sales_payment_id |-> 0]

\* When is the commission expense line of a sale order line written
sale_commission_line_written(p, l) ==
  p.is_sales_commissionable /\ l.commission_amount > 0

\* SaleOrder.book_accounting_entry: the booking lines of one order line
sale_line_entries(p, b, l) ==
  << BLine(b, "cogs", product_cost_amount(p, l.quantity), 0, 0),
     BLine(b, "asset", 0, product_cost_amount(p, l.quantity), 0),
     BLine(b, "receivable", line_subtotal(p, l), 0, 0),
     BLine(b, "income", 0,
           line_subtotal(p, l) + l.commission_amount
             + discount_amount(p, l.quantity, l.price_unit), 0) >>
  \o (IF sale_commission_line_written(p, l)
      THEN << BLine(b, "commission", l.commission_amount, 0, 0) >> ELSE << >>)
  \o (IF discount_amount(p, l.quantity, l.price_unit) > 0
      THEN << BLine(b, "discount", discount_amount(p, l.quantity, l.price_unit), 0, 0) >>
      ELSE << >>)

RECURSIVE sale_entries(_, _, _)
sale_entries(p, b, lines) ==
  IF lines = << >> THEN << >>
  ELSE sale_line_entries(p, b, Head(lines)) \o sale_entries(p, b, Tail(lines))

\* SaleOrder.book_accounting_entry: the check that raises for order line l,
\* in the order the checks are made; the COGS account is not looked at
line_account_error(p, l) ==
  IF l.commission_amount > 0 /\ p.accounts["commission"] # "ok" THEN "commission account"
  ELSE IF discount_amount(p, l.quantity, l.price_unit) > 0 /\ p.accounts["discount"] # "ok"
  THEN "discount account"
  ELSE IF p.accounts["asset"] # "ok" THEN "asset account"
  ELSE IF p.accounts["income"] # "ok" THEN "income account"
  ELSE "ok"

\* SaleOrder.book_accounting_entry: the ValidationError it raises, or "ok";
\* the receivable account is checked before the booking is created, the
\* accounts of a line after it and before the rows of that line
RECURSIVE posting_error(_, _)
posting_error(p, lines) ==
  IF p.accounts["receivable"] = "missing" THEN "receivable account"
  ELSE IF lines = << >> THEN "ok"
  ELSE IF line_account_error(p, Head(lines)) # "ok" THEN line_account_error(p, Head(lines))
  ELSE posting_error(p, Tail(lines))

\* header of the booking SaleOrder.book_accounting_entry creates
sale_booking(p, oid, o) ==
  [source |-> "Sales Order", sale_order_id |-> oid, sale_return_id |-> 0,
   amount |-> order_total(p, o)]

\* ------------------------------------------------------------ state ----
Init ==
  /\ product \in ProductConfigs
  /\ stock_quantity = InitStock
  /\ orders = << >>
  /\ receipts = << >>
  /\ payments = << >>
  /\ returns = << >>
  /\ bookings = << >>
  /\ blines = << >>
  /\ movements = EmptyBag
  /\ sptrans = EmptyBag
  /\ bulks = << >>
  /\ item_quantity = InitStock
  /\ adjustments = << >>
  /\ nextid = [t \in Tables |-> 1]
  /\ lastop = [op |-> "init", doc |-> 0, why |-> "ok", info |-> << >>]

\* insert or replace row id of a table held as a function id -> record
Put(table, id, rec) == [i \in DOMAIN table \cup {id} |-> IF i = id THEN rec ELSE table[i]]
\* delete the rows ids of a table
Drop(table, ids) == [i \in DOMAIN table \ ids |-> table[i]]

\* the handler op was called on document doc and ended with why: "ok", or
\* the reason of the error it raised; info holds the figures its message quotes
CalledWith(op, doc, why, info) ==
  lastop' = [op |-> op, doc |-> doc, why |-> why, info |-> info]
Called(op, doc, why) == CalledWith(op, doc, why, << >>)
\* what a write records: whether the values it wrote are those the document held
same_values(old, new) == IF old = new THEN << "same" >> ELSE << >>

\* rows of booking b
lines_of(bl, b) == IF b \in DOMAIN bl THEN bl[b] ELSE << >>
\* the rows left after unlinking those that satisfy gone
without_lines(bl, gone(_)) ==
  LET kept == [b \in DOMAIN bl |-> SelectSeq(bl[b], LAMBDA x : ~gone(x))]
  IN [b \in {c \in DOMAIN kept : kept[c] # << >>} |-> kept[b]]
total_dr(bl) == SumSeq(SeqMap(bl, LAMBDA x : x.dr_amount))
total_cr(bl) == SumSeq(SeqMap(bl, LAMBDA x : x.cr_amount))

\* ------------------------------------------------------ sale orders ----
\* SaleOrderLine.update_product_stock: does it raise
insufficient_stock(stock, quantity_diff) == stock - quantity_diff < 0

\* the three rows SaleOrderLine.create adds per line
sptrans_of_new_line(p, oid, l) ==
  << [order_id |-> oid, sale_return_id |-> 0, sales_payment_id |-> 0, transaction_type |-> "out",
      amount |-> line_subtotal(p, l) + discount_amount(p, l.quantity, l.price_unit)
                 + l.commission_amount],
     [order_id |-> oid, sale_return_id |-> 0, sales_payment_id |-> 0, transaction_type |-> "out",
      amount |-> 0 - l.commission_amount],
     [order_id |-> oid, sale_return_id |-> 0, sales_payment_id |-> 0, transaction_type |-> "out",
      amount |-> 0 - discount_amount(p, l.quantity, l.price_unit)] >>

\* the three rows SaleOrderLine.write recreates per line
sptrans_of_written_line(p, oid, l) ==
  << [order_id |-> oid, sale_return_id |-> 0, sales_payment_id |-> 0, transaction_type |-> "out",
      amount |-> line_subtotal(p, l) + discount_amount(p, l.quantity, l.price_unit)
                 + l.commission_amount],
     [order_id |-> oid, sale_return_id |-> 0, sales_payment_id |-> 0, transaction_type |-> "in",
      amount |-> l.commission_amount],
     [order_id |-> oid, sale_return_id |-> 0, sales_payment_id |-> 0, transaction_type |-> "in",
      amount |-> discount_amount(p, l.quantity, l.price_unit)] >>

sale_movement(oid, l) ==
  [sale_order_id |-> oid, movement_type |-> "out", quantity |-> 0 - l.quantity,
   source_document |-> << "order", oid >>]

\* SaleOrder.create with one order line; manual is the commission_amount
\* typed on the line, or -1 when the field is left to its compute method
SaleOrderCreate(order_date, quantity, price_unit, manual) ==
  LET oid == nextid["order"]
      rid == nextid["receipt"]
      bid == nextid["booking"]
      l == [quantity |-> quantity, price_unit |-> price_unit,
            commission_amount |-> IF manual >= 0 THEN manual
                                  ELSE compute_commission_amount(product, quantity, price_unit)]
      o == [order_date |-> order_date, order_lines |-> << l >>]
  IN /\ oid <= MaxOrders
     /\ bid <= MaxBookings
     /\ IF commission_config_error(product)
        THEN /\ Called("SaleOrder.create", oid, "commission rate")
             /\ UNCHANGED << product, stock_quantity, orders, receipts, payments, returns,
                             bookings, blines, movements, sptrans, bulks, item_quantity,
                             adjustments, nextid >>
        ELSE IF insufficient_stock(stock_quantity, quantity)
        THEN /\ Called("SaleOrder.create", oid, "stock")
             /\ UNCHANGED << product, stock_quantity, orders, receipts, payments, returns,
                             bookings, blines, movements, sptrans, bulks, item_quantity,
                             adjustments, nextid >>
        ELSE /\ Called("SaleOrder.create", oid, posting_error(product, o.order_lines))
             /\ stock_quantity' = stock_quantity - quantity
             /\ orders' = Put(orders, oid, o)
             /\ sptrans' = sptrans (+) SeqToBag(sptrans_of_new_line(product, oid, l))
             /\ receipts' = Put(receipts, rid,
                   [sales_order_id |-> oid, due_amount |-> order_total(product, o),
                    receipt_date |-> order_date, paid_amount |-> 0,
                    remaining_amount |-> order_total(product, o),
                    payment_status |-> "pending"])
             /\ movements' = movements (+) SetToBag({sale_movement(oid, l)})
             /\ bookings' = IF posting_error(product, o.order_lines) = "receivable account"
                            THEN bookings
                            ELSE Put(bookings, bid, sale_booking(product, oid, o))
             /\ blines' = IF posting_error(product, o.order_lines) = "ok"
                          THEN Put(blines, bid, sale_entries(product, bid, o.order_lines))
                          ELSE blines
             /\ nextid' = [nextid EXCEPT
                             !["order"] = oid + 1, !["receipt"] = rid + 1,
                             !["booking"] =
                                IF posting_error(product, o.order_lines) = "receivable account"
                                THEN bid ELSE bid + 1]
             /\ UNCHANGED << product, payments, returns, bulks, item_quantity, adjustments >>

\* ids of this order's receipts, and the first of them (search ... limit=1)
receipts_of(oid) == {r \in DOMAIN receipts : receipts[r].sales_order_id = oid}
returns_of(oid) == {r \in DOMAIN returns : returns[r].sale_order_id = oid}
first_of(ids) == CHOOSE i \in ids : \A j \in ids : i <= j

\* a guard that looks for a fully paid receipt instead of a paid amount
has_paid_receipt_in_full(oid) ==
  \E r \in receipts_of(oid) : receipts[r].payment_status = "paid"

\* the guards at the head of SaleOrder.write and SaleOrder.unlink
has_paid_receipt(oid) ==
  \E r \in receipts_of(oid) : receipts[r].paid_amount > 0

has_return(oid) == returns_of(oid) # {}

\* bookings SaleOrder.write and SaleOrder.unlink remove: all with this sale_order_id
bookings_of_order(oid) == {b \in DOMAIN bookings : bookings[b].sale_order_id = oid}

\* SaleOrder.write changing the quantity of the order's line (and, when
\* manual >= 0, its commission_amount)
SaleOrderWrite(oid, quantity, manual) ==
  LET o == orders[oid]
      old == o.order_lines[1]
      l == [old EXCEPT !.quantity = quantity,
                       !.commission_amount =
                          IF manual >= 0 THEN manual
                          ELSE compute_commission_amount(product, quantity, old.price_unit)]
      o2 == [o EXCEPT !.order_lines = << l >>]
      bid == nextid["booking"]
      gone == bookings_of_order(oid)
  IN /\ oid \in DOMAIN orders
     /\ bid <= MaxBookings
     /\ IF has_paid_receipt(oid) \/ has_return(oid)
           \/ insufficient_stock(stock_quantity, quantity - old.quantity)
        THEN /\ Called("SaleOrder.write", oid,
                        IF has_paid_receipt(oid) THEN "paid"
                        ELSE IF has_return(oid) THEN "returns" ELSE "stock")
             /\ UNCHANGED << product, stock_quantity, orders, receipts, payments, returns,
                             bookings, blines, movements, sptrans, bulks, item_quantity,
                             adjustments, nextid >>
        ELSE /\ CalledWith("SaleOrder.write", oid, posting_error(product, o2.order_lines),
                             same_values(o, o2))
             /\ stock_quantity' = stock_quantity - (quantity - old.quantity)
             /\ orders' = Put(orders, oid, o2)
             /\ sptrans' = BagSelect(sptrans,
                                    LAMBDA t : ~(t.order_id = oid /\ t.sale_return_id = 0))
                           (+) SeqToBag(sptrans_of_written_line(product, oid, l))
             /\ movements' = BagSelect(movements, LAMBDA m : m.sale_order_id # oid)
                             (+) SetToBag({sale_movement(oid, l)})
             /\ bookings' = IF posting_error(product, o2.order_lines) = "receivable account"
                            THEN Drop(bookings, gone)
                            ELSE Put(Drop(bookings, gone), bid, sale_booking(product, oid, o2))
             /\ blines' = IF posting_error(product, o2.order_lines) = "ok"
                          THEN Put(Drop(blines, gone), bid,
                                   sale_entries(product, bid, o2.order_lines))
                          ELSE Drop(blines, gone)
             /\ receipts' =
                  IF receipts_of(oid) = {} \/ posting_error(product, o2.order_lines) # "ok"
                  THEN receipts
                  ELSE LET r == first_of(receipts_of(oid))
                       IN [receipts EXCEPT
                             ![r].due_amount = order_total(product, o2),
                             ![r].remaining_amount =
                                order_total(product, o2) - receipts[r].paid_amount]
             /\ nextid' = [nextid EXCEPT
                             !["booking"] =
                                IF posting_error(product, o2.order_lines) = "receivable account"
                                THEN bid ELSE bid + 1]
             /\ UNCHANGED << product, payments, returns, bulks, item_quantity, adjustments >>

\* SaleOrder.write with one order_lines command: (0, 0, vals) adding a line
\* of quantity units at price_unit, or (2, id) removing the order's last
\* line.  The stock loop of SaleOrder.write compares every line with itself
\* before the ORM write and finds no difference; SaleOrderLine.create takes
\* the added quantity from the stock, and nothing overrides the unlink of a line
SaleOrderWriteLines(oid, cmd, quantity, price_unit) ==
  LET o == orders[oid]
      l == [quantity |-> quantity, price_unit |-> price_unit,
            commission_amount |-> compute_commission_amount(product, quantity, price_unit)]
      new_lines == IF cmd = "add" THEN Append(o.order_lines, l)
                   ELSE SubSeq(o.order_lines, 1, Len(o.order_lines) - 1)
      o2 == [o EXCEPT !.order_lines = new_lines]
      bid == nextid["booking"]
      gone == bookings_of_order(oid)
  IN /\ oid \in DOMAIN orders
     /\ bid <= MaxBookings
     /\ cmd \in {"add", "remove"}
     /\ cmd = "add" => Len(o.order_lines) < MaxLines
     /\ cmd = "remove" => Len(o.order_lines) >= 1
     /\ IF \/ has_paid_receipt(oid) \/ has_return(oid)
           \/ /\ cmd = "add"
              /\ \/ commission_config_error(product)
                 \/ insufficient_stock(stock_quantity, quantity)
        THEN /\ Called("SaleOrder.write", oid,
                        IF has_paid_receipt(oid) THEN "paid"
                        ELSE IF has_return(oid) THEN "returns"
                        ELSE IF commission_config_error(product) THEN "commission rate"
                        ELSE "stock")
             /\ UNCHANGED << product, stock_quantity, orders, receipts, payments, returns,
                             bookings, blines, movements, sptrans, bulks, item_quantity,
                             adjustments, nextid >>
        ELSE /\ CalledWith("SaleOrder.write", oid, posting_error(product, new_lines),
                             << cmd >>)
             /\ stock_quantity' = IF cmd = "add" THEN stock_quantity - quantity
                                  ELSE stock_quantity
             /\ orders' = Put(orders, oid, o2)
             /\ sptrans' = IF cmd = "add"
                           THEN sptrans (+) SeqToBag(sptrans_of_new_line(product, oid, l))
                           ELSE sptrans
             /\ movements' = BagSelect(movements, LAMBDA m : m.sale_order_id # oid)
                             (+) SeqToBag(SeqMap(new_lines, LAMBDA x : sale_movement(oid, x)))
             /\ bookings' = IF posting_error(product, new_lines) = "receivable account"
                            THEN Drop(bookings, gone)
                            ELSE Put(Drop(bookings, gone), bid, sale_booking(product, oid, o2))
             /\ blines' = IF posting_error(product, new_lines) = "ok"
                          THEN Put(Drop(blines, gone), bid,
                                   sale_entries(product, bid, new_lines))
                          ELSE Drop(blines, gone)
             /\ receipts' =
                  IF receipts_of(oid) = {} \/ posting_error(product, new_lines) # "ok"
                  THEN receipts
                  ELSE LET r == first_of(receipts_of(oid))
                       IN [receipts EXCEPT
                             ![r].due_amount = order_total(product, o2),
                             ![r].remaining_amount =
                                order_total(product, o2) - receipts[r].paid_amount]
             /\ nextid' = [nextid EXCEPT
                             !["booking"] =
                                IF posting_error(product, new_lines) = "receivable account"
                                THEN bid ELSE bid + 1]
             /\ UNCHANGED << product, payments, returns, bulks, item_quantity, adjustments >>

\* SaleOrder.unlink of one order
SaleOrderUnlink(oid) ==
  LET o == orders[oid]
      gone == bookings_of_order(oid)
  IN /\ oid \in DOMAIN orders
     /\ IF has_paid_receipt(oid) \/ has_return(oid)
        THEN /\ Called("SaleOrder.unlink", oid,
                        IF has_paid_receipt(oid) THEN "paid" ELSE "returns")
             /\ UNCHANGED << product, stock_quantity, orders, receipts, payments, returns,
                             bookings, blines, movements, sptrans, bulks, item_quantity,
                             adjustments, nextid >>
        ELSE /\ Called("SaleOrder.unlink", oid, "ok")
             /\ stock_quantity' = stock_quantity
                    + SumSeq(SeqMap(o.order_lines, LAMBDA l : l.quantity))
             /\ movements' = BagSelect(movements, LAMBDA m : m.sale_order_id # oid)
             /\ bookings' = Drop(bookings, gone)
             /\ blines' = Drop(blines, gone)
             /\ sptrans' = BagSelect(sptrans, LAMBDA t : t.order_id # oid)
             /\ orders' = Drop(orders, {oid})
             /\ receipts' = Drop(receipts, receipts_of(oid))
             /\ UNCHANGED << product, payments, returns, bulks, item_quantity, adjustments,
                             nextid >>

\* the receipts SaleOrder.unlink removes: those of the order its loop
\* variable was left on, the last of the recordset
receipts_of_last(ids) == receipts_of(ids[Len(ids)])

\* SaleOrder.unlink of the recordset ids (distinct orders, in this order)
SaleOrderUnlinkAll(ids) ==
  LET oids == {ids[k] : k \in 1..Len(ids)}
      gone == UNION {bookings_of_order(oid) : oid \in oids}
      blocked == {k \in 1..Len(ids) : has_paid_receipt(ids[k]) \/ has_return(ids[k])}
      first_blocked == ids[CHOOSE k \in blocked : \A j \in blocked : k <= j]
  IN /\ Len(ids) >= 1
     /\ oids \subseteq DOMAIN orders
     /\ Cardinality(oids) = Len(ids)
     /\ IF blocked # {}
        THEN /\ Called("SaleOrder.unlink", first_blocked,
                        IF has_paid_receipt(first_blocked) THEN "paid" ELSE "returns")
             /\ UNCHANGED << product, stock_quantity, orders, receipts, payments, returns,
                             bookings, blines, movements, sptrans, bulks, item_quantity,
                             adjustments, nextid >>
        ELSE /\ CalledWith("SaleOrder.unlink", ids[Len(ids)], "ok", ids)
             /\ stock_quantity' = stock_quantity
                    + SumSeq([k \in 1..Len(ids) |->
                                SumSeq(SeqMap(orders[ids[k]].order_lines,
                                              LAMBDA l : l.quantity))])
             /\ movements' = BagSelect(movements, LAMBDA m : m.sale_order_id \notin oids)
             /\ bookings' = Drop(bookings, gone)
             /\ blines' = Drop(blines, gone)
             /\ sptrans' = BagSelect(sptrans, LAMBDA t : t.order_id \notin oids)
             /\ orders' = Drop(orders, oids)
             /\ receipts' = Drop(receipts, receipts_of_last(ids))
             /\ UNCHANGED << product, payments, returns, bulks, item_quantity, adjustments,
                             nextid >>

\* ---------------------------------------------------------- receipts ----
UnchangedButReceiptPosting ==
  UNCHANGED << product, stock_quantity, orders, returns, movements, sptrans, bulks,
               item_quantity, adjustments >>

\* amounts a user may type on a receipt: a fixed part, the full remainder,
\* and more than the remainder
PayChoices(r) == {2 * Scale, r.remaining_amount, r.remaining_amount + Scale}

\* a payment that forgets to take the amount off remaining_amount
receipt_after_payment_keeps_remaining(r, amount_paying) ==
  [r EXCEPT !.paid_amount = r.paid_amount + amount_paying,
            !.payment_status = IF r.remaining_amount <= 0 THEN "paid" ELSE "pending"]

\* the receipt after action_process_receipt took amount_paying
receipt_after_payment(r, amount_paying) ==
  [r EXCEPT !.paid_amount = r.paid_amount + amount_paying,
            !.remaining_amount = r.remaining_amount - amount_paying,
            !.payment_status = IF r.remaining_amount - amount_paying <= 0
                               THEN "paid" ELSE "pending"]

\* SalesReceipt.action_process_receipt with amount_paying typed on the receipt
ActionProcessReceipt(rid, amount_paying) ==
  LET r == receipts[rid]
      bid == nextid["booking"]
      pid == nextid["payment"]
      paid == r.paid_amount + amount_paying
  IN /\ rid \in DOMAIN receipts
     /\ bid <= MaxBookings
     /\ IF amount_paying <= 0 \/ amount_paying > r.remaining_amount
        THEN /\ Called("SalesReceipt.action_process_receipt", rid,
                        IF amount_paying <= 0 THEN "amount" ELSE "exceeds")
             /\ UNCHANGED << product, stock_quantity, orders, receipts, payments, returns,
                             bookings, blines, movements, sptrans, bulks, item_quantity,
                             adjustments, nextid >>
        ELSE /\ Called("SalesReceipt.action_process_receipt", rid, "ok")
             /\ receipts' = [receipts EXCEPT ![rid] = receipt_after_payment(r, amount_paying)]
             /\ bookings' = Put(bookings, bid,
                   [source |-> "Receipt", sale_order_id |-> 0, sale_return_id |-> 0,
                    amount |-> paid])
             /\ blines' = Put(blines, bid,
                   << [BLine(bid, "payment", amount_paying, 0, 0)
                         EXCEPT !.sales_payment_id = pid],
                      [BLine(bid, "receivable", 0, amount_paying, 0)
                         EXCEPT !.sales_payment_id = pid] >>)
             /\ payments' = Put(payments, pid,
                   [sales_receipt_id |-> rid, paid_amount |-> amount_paying,
                    bookings |-> {bid}, bulk |-> 0])
             /\ nextid' = [nextid EXCEPT !["booking"] = bid + 1, !["payment"] = pid + 1]
             /\ UnchangedButReceiptPosting

\* what IdilSalesPayment.unlink does to the receipts for the payments pids,
\* taken in ascending id order
RECURSIVE receipts_after_payment_unlink(_, _, _)
receipts_after_payment_unlink(rs, ps, pids) ==
  IF pids = {} THEN rs
  ELSE LET pid == first_of(pids)
           rid == ps[pid].sales_receipt_id
           rs2 == IF rid \in DOMAIN rs
                  THEN [rs EXCEPT
                          ![rid].remaining_amount = rs[rid].remaining_amount
                                                    + ps[pid].paid_amount,
                          ![rid].paid_amount = rs[rid].paid_amount - ps[pid].paid_amount]
                  ELSE rs
       IN receipts_after_payment_unlink(rs2, ps, pids \ {pid})

\* IdilSalesPayment.unlink of one payment record
SalesPaymentUnlink(pid) ==
  /\ pid \in DOMAIN payments
  /\ Called("IdilSalesPayment.unlink", pid, "ok")
  /\ receipts' = receipts_after_payment_unlink(receipts, payments, {pid})
  /\ payments' = Drop(payments, {pid})
  /\ blines' = [b \in DOMAIN blines |->
                  SeqMap(blines[b], LAMBDA x : IF x.sales_payment_id = pid
                                               THEN [x EXCEPT !.sales_payment_id = 0] ELSE x)]
  /\ UNCHANGED << product, stock_quantity, orders, returns, bookings, movements, sptrans,
                  bulks, item_quantity, adjustments, nextid >>

\* ---------------------------------------------------- sale returns ----
\* the amounts book_sales_return_entry, SaleReturn.write and SaleReturn.unlink
\* derive from a returned quantity q at price_unit: the commission is taken
\* from the product's rate whatever its is_sales_commissionable flag
ret_discount_qty(p, q) == IF p.is_quantity_discount THEN p.discount * q ELSE 0
ret_discount_amt(p, q, price_unit) == ret_discount_qty(p, q) * price_unit * 100
ret_commission_amt(p, q, price_unit) ==
  (100 * q - ret_discount_qty(p, q)) * p.commission * price_unit
ret_subtotal(p, q, price_unit) ==
  Scale * q * price_unit - ret_discount_amt(p, q, price_unit)
  - ret_commission_amt(p, q, price_unit)
ret_cost_amount(p, q) ==
  IF p.usd THEN Scale * p.cost * q * p.rate ELSE Scale * p.cost * q

\* SaleReturnLine._compute_subtotal
return_line_subtotal(l) == Scale * l.returned_quantity * l.price_unit
sum_return_subtotal(lines) == SumSeq(SeqMap(lines, return_line_subtotal))

\* When is the commission reversal line of a return line written
return_commission_line_written(p, l) ==
  p.is_sales_commissionable
  /\ ret_commission_amt(p, l.returned_quantity, l.price_unit) > 0

\* the booking lines both posting paths of a return write for one return line
return_line_entries(p, b, ret, l) ==
  LET q == l.returned_quantity
      pu == l.price_unit
  IN << BLine(b, "cogs", 0, ret_cost_amount(p, q), ret),
        BLine(b, "asset", ret_cost_amount(p, q), 0, ret),
        BLine(b, "receivable", 0, ret_subtotal(p, q, pu), ret),
        BLine(b, "income",
              ret_subtotal(p, q, pu) + ret_discount_amt(p, q, pu)
                + ret_commission_amt(p, q, pu), 0, ret) >>
     \o (IF return_commission_line_written(p, l)
         THEN << BLine(b, "commission", 0, ret_commission_amt(p, q, pu), ret) >>
         ELSE << >>)
     \o (IF ret_discount_amt(p, q, pu) > 0
         THEN << BLine(b, "discount", 0, ret_discount_amt(p, q, pu), ret) >>
         ELSE << >>)

RECURSIVE return_entries(_, _, _, _)
return_entries(p, b, ret, lines) ==
  IF lines = << >> THEN << >>
  ELSE return_line_entries(p, b, ret, Head(lines)) \o return_entries(p, b, ret, Tail(lines))

return_line_sptrans(p, oid, ret, l) ==
  LET q == l.returned_quantity
      pu == l.price_unit
  IN << [order_id |-> oid, sale_return_id |-> ret, sales_payment_id |-> 0,
         transaction_type |-> "in",
         amount |-> ret_subtotal(p, q, pu) + ret_discount_amt(p, q, pu)
                    + ret_commission_amt(p, q, pu)],
        [order_id |-> oid, sale_return_id |-> ret, sales_payment_id |-> 0,
         transaction_type |-> "in", amount |-> 0 - ret_commission_amt(p, q, pu)],
        [order_id |-> oid, sale_return_id |-> ret, sales_payment_id |-> 0,
         transaction_type |-> "in", amount |-> 0 - ret_discount_amt(p, q, pu)] >>

RECURSIVE return_sptrans(_, _, _, _)
return_sptrans(p, oid, ret, lines) ==
  IF lines = << >> THEN << >>
  ELSE return_line_sptrans(p, oid, ret, Head(lines)) \o return_sptrans(p, oid, ret, Tail(lines))

\* movements: book_sales_return_entry files them under the return's name,
\* SaleReturn.write under its id
return_movements(key, ret, lines) ==
  SeqToBag(SeqMap(lines, LAMBDA l : [sale_order_id |-> 0, movement_type |-> "in",
                            quantity |-> l.returned_quantity,
                            source_document |-> << key, ret >>]))

sum_returned(lines) == SumSeq(SeqMap(lines, LAMBDA l : l.returned_quantity))

\* a return that lowers the due amount and leaves the paid amount as it was
receipt_after_return_unclamped(r, amount) ==
  [r EXCEPT !.due_amount = r.due_amount - amount,
            !.remaining_amount = r.due_amount - amount - r.paid_amount,
            !.payment_status = IF r.due_amount - amount <= 0 THEN "paid" ELSE "pending"]

\* the receipt after a return changed its due amount by -amount
receipt_after_return(r, amount) ==
  LET due == r.due_amount - amount
      paid == Min(r.paid_amount, due)
  IN [r EXCEPT !.due_amount = due, !.paid_amount = paid,
               !.remaining_amount = due - paid,
               !.payment_status = IF due <= 0 THEN "paid" ELSE "pending"]

\* returned quantity on the lines of the confirmed returns of order oid
\* other than return ret (one product: every line is of the same product)
confirmed_returned_except(rets, oid, ret) ==
  LET ids == {r \in DOMAIN rets : /\ rets[r].sale_order_id = oid
                                  /\ rets[r].state = "confirmed"
                                  /\ r # ret}
      RECURSIVE total(_)
      total(S) == IF S = {} THEN 0
                  ELSE LET r == first_of(S)
                       IN sum_returned(rets[r].return_lines) + total(S \ {r})
  IN total(ids)

\* SaleReturn.create of a draft with one return line, as filled from the
\* order by _onchange_sale_order_id and edited by the user
SaleReturnCreate(oid, returned_quantity) ==
  LET ret == nextid["return"]
      ol == orders[oid].order_lines[1]
  IN /\ oid \in DOMAIN orders
     /\ ret <= MaxReturns
     /\ Called("SaleReturn.create", ret, "ok")
     /\ returns' = Put(returns, ret,
           [sale_order_id |-> oid, state |-> "draft",
            return_lines |-> << [quantity |-> ol.quantity,
                                 returned_quantity |-> returned_quantity,
                                 price_unit |-> ol.price_unit] >>])
     /\ nextid' = [nextid EXCEPT !["return"] = ret + 1]
     /\ UNCHANGED << product, stock_quantity, orders, receipts, payments, bookings, blines,
                     movements, sptrans, bulks, item_quantity, adjustments >>

\* a check that forgets what other confirmed returns took
over_return_ignoring_others(rets, ret, l, sold) == l.returned_quantity > sold

\* the check SaleReturn.action_confirm makes per return line
over_return(rets, ret, l, sold) ==
  confirmed_returned_except(rets, rets[ret].sale_order_id, ret) + l.returned_quantity > sold

\* the figures of the ValidationError: already returned, available, original
over_return_message(rets, ret, l, sold) ==
  << confirmed_returned_except(rets, rets[ret].sale_order_id, ret),
     sold - confirmed_returned_except(rets, rets[ret].sale_order_id, ret),
     sold >>

\* the amount book_sales_return_entry takes off the receipt: the return's
\* line subtotals less the discount and commission of the last line posted
confirm_receipt_amount(p, lines) ==
  LET last == lines[Len(lines)]
  IN sum_return_subtotal(lines)
     - ret_discount_amt(p, last.returned_quantity, last.price_unit)
     - ret_commission_amt(p, last.returned_quantity, last.price_unit)

\* SaleReturn.action_confirm, with book_sales_return_entry
SaleReturnConfirm(ret) ==
  LET rt == returns[ret]
      oid == rt.sale_order_id
      sold == orders[oid].order_lines[1].quantity
      bid == nextid["booking"]
      lines == rt.return_lines
      first_over == lines[CHOOSE k \in 1..Len(lines) :
                            /\ over_return(returns, ret, lines[k], sold)
                            /\ \A j \in 1..(k - 1) : ~over_return(returns, ret, lines[j], sold)]
  IN /\ ret \in DOMAIN returns
     /\ oid \in DOMAIN orders
     /\ bid <= MaxBookings
     /\ IF rt.state # "draft"
           \/ \E k \in 1..Len(lines) : over_return(returns, ret, lines[k], sold)
        THEN /\ IF rt.state # "draft"
                THEN Called("SaleReturn.action_confirm", ret, "state")
                ELSE CalledWith("SaleReturn.action_confirm", ret, "over return",
                                over_return_message(returns, ret, first_over, sold))
             /\ UNCHANGED << product, stock_quantity, orders, receipts, payments, returns,
                             bookings, blines, movements, sptrans, bulks, item_quantity,
                             adjustments, nextid >>
        ELSE /\ Called("SaleReturn.action_confirm", ret, "ok")
             /\ bookings' = Put(bookings, bid,
                   [source |-> "Sales Return", sale_order_id |-> oid,
                    sale_return_id |-> ret, amount |-> sum_return_subtotal(lines)])
             /\ blines' = Put(blines, bid, return_entries(product, bid, ret, lines))
             /\ sptrans' = sptrans (+) SeqToBag(return_sptrans(product, oid, ret, lines))
             /\ movements' = movements (+) return_movements("name", ret, lines)
             /\ stock_quantity' = stock_quantity + sum_returned(lines)
             /\ receipts' =
                  IF receipts_of(oid) = {} THEN receipts
                  ELSE LET r == first_of(receipts_of(oid))
                       IN [receipts EXCEPT ![r] =
                             receipt_after_return(receipts[r],
                                                  confirm_receipt_amount(product, lines))]
             /\ returns' = [returns EXCEPT ![ret].state = "confirmed"]
             /\ nextid' = [nextid EXCEPT !["booking"] = bid + 1]
             /\ UNCHANGED << product, orders, payments, bulks, item_quantity, adjustments >>

\* an edit that takes the whole of the new subtotals off the receipt again
write_receipt_amount_in_full(p, old_lines, new_lines) == sum_return_subtotal(new_lines)

\* the amount SaleReturn.write takes off the receipt: the change of the
\* line subtotals less, for every line, the discount and commission of
\* delta_qty, the quantity change of the last line the stock loop visited
write_receipt_amount(p, old_lines, new_lines) ==
  LET n == Len(new_lines)
      delta_qty == new_lines[n].returned_quantity - old_lines[n].returned_quantity
      total_discount ==
        SumSeq(SeqMap(new_lines, LAMBDA l : ret_discount_amt(p, delta_qty, l.price_unit)))
      total_commission ==
        SumSeq(SeqMap(new_lines, LAMBDA l : ret_commission_amt(p, delta_qty, l.price_unit)))
  IN sum_return_subtotal(new_lines) - sum_return_subtotal(old_lines)
     - total_discount - total_commission

\* SaleReturn.write setting the returned_quantity of the return's line
SaleReturnWrite(ret, returned_quantity) ==
  LET rt == returns[ret]
      oid == rt.sale_order_id
      old_lines == rt.return_lines
      new_lines == [old_lines EXCEPT ![1].returned_quantity = returned_quantity]
      bid == nextid["booking"]
  IN /\ ret \in DOMAIN returns
     /\ IF rt.state # "confirmed"
        THEN /\ CalledWith("SaleReturn.write", ret, "ok", same_values(old_lines, new_lines))
             /\ returns' = [returns EXCEPT ![ret].return_lines = new_lines]
             /\ UNCHANGED << product, stock_quantity, orders, receipts, payments, bookings,
                             blines, movements, sptrans, bulks, item_quantity, adjustments,
                             nextid >>
        ELSE /\ bid <= MaxBookings
             /\ CalledWith("SaleReturn.write", ret, "ok", same_values(old_lines, new_lines))
             /\ returns' = [returns EXCEPT ![ret].return_lines = new_lines]
             /\ stock_quantity' = stock_quantity + sum_returned(new_lines)
                                  - sum_returned(old_lines)
             /\ receipts' =
                  IF receipts_of(oid) = {} THEN receipts
                  ELSE LET r == first_of(receipts_of(oid))
                       IN [receipts EXCEPT ![r] =
                             receipt_after_return(receipts[r],
                                write_receipt_amount(product, old_lines, new_lines))]
             /\ bookings' = Put(bookings, bid,
                   [source |-> "Sales Return", sale_order_id |-> oid,
                    sale_return_id |-> ret, amount |-> sum_return_subtotal(new_lines)])
             /\ blines' = Put(without_lines(blines, LAMBDA x : x.sale_return_id = ret),
                              bid, return_entries(product, bid, ret, new_lines))
             /\ sptrans' = BagSelect(sptrans, LAMBDA t : t.sale_return_id # ret)
                           (+) SeqToBag(return_sptrans(product, oid, ret, new_lines))
             /\ movements' =
                  BagSelect(movements, LAMBDA m : ~(m.source_document = << "id", ret >>
                                                    /\ m.movement_type = "in"))
                  (+) return_movements("id", ret, new_lines)
             /\ nextid' = [nextid EXCEPT !["booking"] = bid + 1]
             /\ UNCHANGED << product, orders, payments, bulks, item_quantity, adjustments >>

\* the amount SaleReturn.unlink puts back on the receipt
unlink_receipt_amount(p, lines) ==
  sum_return_subtotal(lines)
  - SumSeq(SeqMap(lines, LAMBDA l : ret_discount_amt(p, l.returned_quantity, l.price_unit)))
  - SumSeq(SeqMap(lines, LAMBDA l : ret_commission_amt(p, l.returned_quantity, l.price_unit)))

\* SaleReturn.unlink.  Its payment guard searches the receipts on a field
\* amount_paid that idil.sales.receipt does not declare (the receipt holds
\* paid_amount) and that no handler writes: the search is either refused by
\* the ORM (field_known = FALSE) or finds no receipt.
SaleReturnUnlink(ret, field_known) ==
  LET rt == returns[ret]
      oid == rt.sale_order_id
      lines == rt.return_lines
      gone == {b \in DOMAIN bookings : bookings[b].sale_return_id = ret}
  IN /\ ret \in DOMAIN returns
     /\ IF rt.state # "confirmed"
        THEN /\ Called("SaleReturn.unlink", ret, "ok")
             /\ returns' = Drop(returns, {ret})
             /\ UNCHANGED << product, stock_quantity, orders, receipts, payments, bookings,
                             blines, movements, sptrans, bulks, item_quantity, adjustments,
                             nextid >>
        ELSE IF ~field_known
        THEN /\ Called("SaleReturn.unlink", ret, "field")
             /\ UNCHANGED << product, stock_quantity, orders, receipts, payments, returns,
                             bookings, blines, movements, sptrans, bulks, item_quantity,
                             adjustments, nextid >>
        ELSE /\ Called("SaleReturn.unlink", ret, "ok")
             /\ stock_quantity' = stock_quantity - sum_returned(lines)
             /\ receipts' =
                  IF receipts_of(oid) = {} THEN receipts
                  ELSE LET r == first_of(receipts_of(oid))
                           due == receipts[r].due_amount
                                  + unlink_receipt_amount(product, lines)
                       IN [receipts EXCEPT
                             ![r].due_amount = due,
                             ![r].remaining_amount = due - receipts[r].paid_amount,
                             ![r].payment_status = IF due <= 0 THEN "paid" ELSE "pending"]
             /\ blines' = without_lines(blines, LAMBDA x : x.sale_return_id = ret)
             /\ sptrans' = BagSelect(sptrans, LAMBDA t : t.sale_return_id # ret)
             /\ movements' =
                  BagSelect(movements, LAMBDA m : ~(m.source_document = << "id", ret >>
                                                    /\ m.movement_type = "in"))
             /\ bookings' = Drop(bookings, gone)
             /\ returns' = Drop(returns, {ret})
             /\ UNCHANGED << product, orders, payments, bulks, item_quantity, adjustments,
                             nextid >>

\* ---------------------------------------------------- bulk payments ----
\* currency of the chart accounts a payment method may name; the
\* salesperson's receivable account is in the local currency
Accounts == {"cash", "bank", "usd"}
account_currency(a) == IF a = "usd" THEN "USD" ELSE "SL"
receivable_currency == "SL"

\* search(domain, order="receipt_date asc"): the ids ordered by date, then id
RECURSIVE by_receipt_date(_, _)
by_receipt_date(rs, ids) ==
  IF ids = {} THEN << >>
  ELSE LET r == CHOOSE i \in ids : \A j \in ids :
                  \/ rs[i].receipt_date < rs[j].receipt_date
                  \/ (rs[i].receipt_date = rs[j].receipt_date /\ i <= j)
       IN << r >> \o by_receipt_date(rs, ids \ {r})

pending_receipts(rs) == {r \in DOMAIN rs : rs[r].payment_status = "pending"}

\* ReceiptBulkPayment._compute_due_receipt / _check_amount: total outstanding
total_due(rs) ==
  LET RECURSIVE total(_)
      total(S) == IF S = {} THEN 0
                  ELSE LET r == first_of(S)
                       IN rs[r].due_amount - rs[r].paid_amount + total(S \ {r})
  IN total(pending_receipts(rs))

\* ReceiptBulkPayment._onchange_lines: the lines for amount over the
\* receipts taken in the order todo
RECURSIVE onchange_lines(_, _, _)
onchange_lines(rs, todo, remaining_payment) ==
  IF todo = << >> \/ remaining_payment <= 0 THEN << >>
  ELSE LET r == Head(todo)
           to_pay == Min(rs[r].due_amount - rs[r].paid_amount, remaining_payment)
       IN IF to_pay > 0
          THEN << [receipt_id |-> r, paid_now |-> to_pay] >>
               \o onchange_lines(rs, Tail(todo), remaining_payment - to_pay)
          ELSE onchange_lines(rs, Tail(todo), remaining_payment)

methods_total(methods) == SumSeq(SeqMap(methods, LAMBDA m : m.payment_amount))

\* the payment method lists a user may enter for an amount
MethodChoices(amount) ==
  { << [payment_account_id |-> "cash", payment_amount |-> amount] >> }
  \cup (IF amount > 2 * Scale
        THEN { << [payment_account_id |-> "cash", payment_amount |-> 2 * Scale],
                  [payment_account_id |-> a, payment_amount |-> amount - 2 * Scale] >> :
               a \in Accounts }
        ELSE {})

\* ReceiptBulkPayment.create of a draft whose lines _onchange_lines filled;
\* the constraints _check_payment_method_total, _check_amount and
\* _check_at_least_one_payment_method refuse the record
BulkCreate(amount_to_pay, methods) ==
  LET id == nextid["bulk"]
      bad == \/ methods = << >>
             \/ Abs(methods_total(methods) - amount_to_pay) > Eps
             \/ amount_to_pay > total_due(receipts)
  IN /\ id <= MaxBulks
     /\ IF bad
        THEN /\ Called("ReceiptBulkPayment.create", id, "constraint")
             /\ UNCHANGED << bulks, nextid >>
        ELSE /\ Called("ReceiptBulkPayment.create", id, "ok")
             /\ bulks' = Put(bulks, id,
                   [amount_to_pay |-> amount_to_pay, payment_method_ids |-> methods,
                    line_ids |-> onchange_lines(receipts,
                                   by_receipt_date(receipts, pending_receipts(receipts)),
                                   amount_to_pay),
                    state |-> "draft"])
             /\ nextid' = [nextid EXCEPT !["bulk"] = id + 1]
     /\ UNCHANGED << product, stock_quantity, orders, receipts, payments, returns, bookings,
                     blines, movements, sptrans, item_quantity, adjustments >>

\* capacities that stand above what the methods entered
remaining_by_account_of_padded(methods) ==
  [a \in {methods[k].payment_account_id : k \in 1..Len(methods)} |->
     Scale + SumSeq(SeqMap(methods, LAMBDA m : IF m.payment_account_id = a
                                              THEN m.payment_amount ELSE 0))]

\* remaining_by_account: a dict keyed by account, so of two methods on one
\* account the later amount stands
remaining_by_account_of(methods) ==
  [a \in {methods[k].payment_account_id : k \in 1..Len(methods)} |->
     LET k == CHOOSE k \in 1..Len(methods) :
                /\ methods[k].payment_account_id = a
                /\ \A j \in 1..Len(methods) : methods[j].payment_account_id = a => j <= k
     IN methods[k].payment_amount]

\* a loop that debits each account with all it has left, whatever the
\* receipt still needs
RECURSIVE allocate_methods_unmetered(_, _, _, _, _)
allocate_methods_unmetered(methods, rba, remaining_to_allocate, b, written) ==
  IF methods = << >>
  THEN [dr_lines |-> written, rba |-> rba, left |-> remaining_to_allocate, err |-> "ok"]
  ELSE LET acc == Head(methods).payment_account_id
           allocatable == rba[acc]
       IN IF allocatable <= 0
          THEN allocate_methods_unmetered(Tail(methods), rba, remaining_to_allocate, b,
                                          written)
          ELSE IF receivable_currency # account_currency(acc)
          THEN [dr_lines |-> written, rba |-> rba, left |-> remaining_to_allocate,
                err |-> "currency"]
          ELSE LET w == Append(written, BLine(b, acc, allocatable, 0, 0))
                   rba2 == [rba EXCEPT ![acc] = rba[acc] - allocatable]
               IN IF remaining_to_allocate - allocatable <= 0
                  THEN [dr_lines |-> w, rba |-> rba2, left |-> 0, err |-> "ok"]
                  ELSE allocate_methods_unmetered(Tail(methods), rba2,
                                                  remaining_to_allocate - allocatable, b, w)

\* the loop over the payment methods for one receipt: the debit lines
\* written, the capacities left, what is left to allocate, and the error
RECURSIVE allocate_methods(_, _, _, _, _)
allocate_methods(methods, rba, remaining_to_allocate, b, written) ==
  IF methods = << >>
  THEN [dr_lines |-> written, rba |-> rba, left |-> remaining_to_allocate, err |-> "ok"]
  ELSE LET acc == Head(methods).payment_account_id
           allocatable == Min(remaining_to_allocate, rba[acc])
       IN IF allocatable <= 0
          THEN allocate_methods(Tail(methods), rba, remaining_to_allocate, b, written)
          ELSE IF receivable_currency # account_currency(acc)
          THEN [dr_lines |-> written, rba |-> rba, left |-> remaining_to_allocate,
                err |-> "currency"]
          ELSE LET w == Append(written, BLine(b, acc, allocatable, 0, 0))
                   rba2 == [rba EXCEPT ![acc] = rba[acc] - allocatable]
               IN IF remaining_to_allocate - allocatable <= 0
                  THEN [dr_lines |-> w, rba |-> rba2, left |-> 0, err |-> "ok"]
                  ELSE allocate_methods(Tail(methods), rba2,
                                        remaining_to_allocate - allocatable, b, w)

\* the stores action_confirm_payment works on, as one record
BulkState(rs, bk, bl, ps, st, ids, lines, remaining_payment, rba, err) ==
  [receipts |-> rs, bookings |-> bk, blines |-> bl, payments |-> ps, sptrans |-> st,
   nextid |-> ids, line_ids |-> lines, remaining_payment |-> remaining_payment,
   rba |-> rba, err |-> err]

\* one iteration of the loop over line_ids of action_confirm_payment
confirm_line(s, methods, k) ==
  LET line == s.line_ids[k]
      rid == line.receipt_id
      r == s.receipts[rid]
      to_pay == Min(r.due_amount - r.paid_amount, s.remaining_payment)
      bid == s.nextid["booking"]
      pid == s.nextid["payment"]
      header == [source |-> "Bulk Receipt", sale_order_id |-> r.sales_order_id,
                 sale_return_id |-> 0, amount |-> to_pay]
      alloc == allocate_methods(methods, s.rba, to_pay, bid, << >>)
      n == Len(alloc.dr_lines)
      drs == [j \in 1..n |-> IF j = n THEN [alloc.dr_lines[j] EXCEPT !.sales_payment_id = pid]
                             ELSE alloc.dr_lines[j]]
      cr == [BLine(bid, "receivable", 0, to_pay, 0) EXCEPT !.sales_payment_id = pid]
      paid == r.paid_amount + to_pay
  IN IF rid \notin DOMAIN s.receipts \/ to_pay <= 0 THEN s
     ELSE IF receivable_currency # account_currency(methods[1].payment_account_id)
     THEN [s EXCEPT !.err = "currency"]
     ELSE IF alloc.err # "ok" \/ alloc.left > 0
     THEN [s EXCEPT !.bookings = Put(s.bookings, bid, header),
                    !.blines = IF alloc.dr_lines = << >> THEN s.blines
                               ELSE Put(s.blines, bid, alloc.dr_lines),
                    !.nextid = [s.nextid EXCEPT !["booking"] = bid + 1],
                    !.rba = alloc.rba,
                    !.err = IF alloc.err # "ok" THEN alloc.err ELSE "insufficient"]
     ELSE [s EXCEPT
             !.bookings = Put(s.bookings, bid, header),
             !.blines = Put(s.blines, bid, Append(drs, cr)),
             !.payments = Put(s.payments, pid,
                              [sales_receipt_id |-> rid, paid_amount |-> to_pay,
                               bookings |-> {bid}, bulk |-> 1]),
             !.receipts = [s.receipts EXCEPT
                             ![rid].paid_amount = paid,
                             ![rid].remaining_amount = r.due_amount - paid,
                             ![rid].payment_status =
                                IF r.due_amount - paid <= 0 THEN "paid" ELSE "pending"],
             !.line_ids = [s.line_ids EXCEPT ![k].paid_now = to_pay],
             !.sptrans = s.sptrans (+) SetToBag({[order_id |-> r.sales_order_id,
                                                  sale_return_id |-> 0,
                                                  sales_payment_id |-> pid,
                                                  transaction_type |-> "in",
                                                  amount |-> to_pay]}),
             !.nextid = [s.nextid EXCEPT !["booking"] = bid + 1, !["payment"] = pid + 1],
             !.rba = alloc.rba,
             !.remaining_payment = s.remaining_payment - to_pay]

RECURSIVE confirm_lines(_, _, _)
confirm_lines(s, methods, k) ==
  IF k > Len(s.line_ids) \/ s.remaining_payment <= 0 \/ s.err # "ok" THEN s
  ELSE confirm_lines(confirm_line(s, methods, k), methods, k + 1)

\* ReceiptBulkPayment.action_confirm_payment
BulkConfirm(id) ==
  LET b == bulks[id]
      s0 == BulkState(receipts, bookings, blines, payments, sptrans, nextid, b.line_ids,
                      b.amount_to_pay, remaining_by_account_of(b.payment_method_ids), "ok")
      s == confirm_lines(s0, b.payment_method_ids, 1)
      why == IF s.err # "ok" THEN s.err
             ELSE IF s.remaining_payment > 0 THEN "partial" ELSE "ok"
  IN /\ id \in DOMAIN bulks
     /\ b.state = "draft"
     /\ nextid["booking"] + Len(b.line_ids) - 1 <= MaxBookings
     /\ Called("ReceiptBulkPayment.action_confirm_payment", id, why)
     /\ receipts' = s.receipts
     /\ bookings' = s.bookings
     /\ blines' = s.blines
     /\ payments' = s.payments
     /\ sptrans' = s.sptrans
     /\ nextid' = s.nextid
     /\ bulks' = [bulks EXCEPT ![id].line_ids = s.line_ids,
                               ![id].state = IF why = "ok" THEN "confirmed" ELSE "draft"]
     /\ UNCHANGED << product, stock_quantity, orders, returns, movements, item_quantity,
                     adjustments >>

\* ReceiptBulkPayment.unlink: for a confirmed bulk payment every payment of
\* every receipt on its lines is deleted with its linked bookings and lines
BulkUnlink(id) ==
  LET b == bulks[id]
      rids == {b.line_ids[k].receipt_id : k \in 1..Len(b.line_ids)}
      pids == {p \in DOMAIN payments : payments[p].sales_receipt_id \in rids}
      gone == UNION {payments[p].bookings : p \in pids}
  IN /\ id \in DOMAIN bulks
     /\ Called("ReceiptBulkPayment.unlink", id, "ok")
     /\ bulks' = Drop(bulks, {id})
     /\ IF b.state = "confirmed"
        THEN /\ receipts' = receipts_after_payment_unlink(receipts, payments, pids)
             /\ payments' = Drop(payments, pids)
             /\ bookings' = Drop(bookings, gone)
             /\ blines' = Drop(without_lines(blines, LAMBDA x : x.sales_payment_id \in pids),
                               gone)
             /\ sptrans' = BagSelect(sptrans, LAMBDA t : t.sales_payment_id \notin pids)
        ELSE UNCHANGED << receipts, payments, bookings, blines, sptrans >>
     /\ UNCHANGED << product, stock_quantity, orders, returns, movements, item_quantity,
                     adjustments, nextid >>

\* ------------------------------------------------ stock adjustments ----
\* cost_price of the adjusted item
item_cost_price == 3 * Scale

\* the booking StockAdjustment.create files under "Stock Adjustments<id>"
adjustment_bookings(bk, id) ==
  {b \in DOMAIN bk : bk[b].source = "stock_adjustments" /\ bk[b].adjustment = id}

adjustment_entries(b, qty) ==
  << BLine(b, "adjustment", qty * item_cost_price, 0, 0),
     BLine(b, "asset", 0, qty * item_cost_price, 0) >>

\* StockAdjustment.create (adjustment_type "decrease"): the record is stored
\* by super().create before the quantity check
StockAdjustmentCreate(adjustment_qty) ==
  LET id == nextid["adjustment"]
      bid == nextid["booking"]
  IN /\ id <= MaxAdjustments
     /\ bid <= MaxBookings
     /\ IF item_quantity < adjustment_qty
        THEN /\ Called("StockAdjustment.create", id, "below zero")
             /\ adjustments' = Put(adjustments, id,
                   [adjustment_qty |-> adjustment_qty, has_movement |-> FALSE,
                    movement_quantity |-> 0])
             /\ nextid' = [nextid EXCEPT !["adjustment"] = id + 1]
             /\ UNCHANGED << item_quantity, bookings, blines >>
        ELSE /\ Called("StockAdjustment.create", id, "ok")
             /\ adjustments' = Put(adjustments, id,
                   [adjustment_qty |-> adjustment_qty, has_movement |-> TRUE,
                    movement_quantity |-> 0 - adjustment_qty])
             /\ item_quantity' = item_quantity - adjustment_qty
             /\ bookings' = Put(bookings, bid,
                   [source |-> "stock_adjustments", sale_order_id |-> 0,
                    sale_return_id |-> 0, amount |-> Abs(adjustment_qty * item_cost_price),
                    adjustment |-> id])
             /\ blines' = Put(blines, bid, adjustment_entries(bid, adjustment_qty))
             /\ nextid' = [nextid EXCEPT !["adjustment"] = id + 1, !["booking"] = bid + 1]
     /\ UNCHANGED << product, stock_quantity, orders, receipts, payments, returns, movements,
                     sptrans, bulks >>

\* StockAdjustment.write of adjustment_qty
StockAdjustmentWrite(id, new_qty) ==
  LET record == adjustments[id]
      old_qty == record.adjustment_qty
      difference == new_qty - old_qty
      new_item_qty == IF difference < 0 THEN item_quantity + Abs(difference)
                      ELSE IF difference > 0 THEN item_quantity - Abs(difference)
                      ELSE item_quantity
      found == adjustment_bookings(bookings, id)
  IN /\ id \in DOMAIN adjustments
     /\ IF difference = 0
        THEN /\ Called("StockAdjustment.write", id, "ok")
             /\ UNCHANGED << adjustments, item_quantity, bookings, blines >>
        ELSE IF difference < 0 /\ item_quantity < Abs(difference)
        THEN /\ Called("StockAdjustment.write", id, "below zero")
             /\ UNCHANGED << adjustments, item_quantity, bookings, blines >>
        ELSE /\ Called("StockAdjustment.write", id, "ok")
             /\ item_quantity' = new_item_qty
             /\ bookings' = [b \in DOMAIN bookings |->
                               IF found # {} /\ b = first_of(found)
                               THEN [bookings[b] EXCEPT !.amount = Abs(new_qty * item_cost_price)]
                               ELSE bookings[b]]
             /\ blines' = [b \in DOMAIN blines |->
                             IF found # {} /\ b = first_of(found)
                             THEN SeqMap(blines[b], LAMBDA x :
                                    IF x.account = "adjustment"
                                    THEN [x EXCEPT !.dr_amount = new_qty * item_cost_price]
                                    ELSE [x EXCEPT !.cr_amount = new_qty * item_cost_price])
                             ELSE blines[b]]
             /\ adjustments' = [adjustments EXCEPT
                   ![id].adjustment_qty = new_qty,
                   ![id].movement_quantity =
                      IF record.has_movement THEN 0 - new_qty ELSE 0]
     /\ UNCHANGED << product, stock_quantity, orders, receipts, payments, returns, movements,
                     sptrans, bulks, nextid >>

\* StockAdjustment.unlink
StockAdjustmentUnlink(id) ==
  LET record == adjustments[id]
      found == adjustment_bookings(bookings, id)
      gone == IF found = {} THEN {} ELSE {first_of(found)}
  IN /\ id \in DOMAIN adjustments
     /\ Called("StockAdjustment.unlink", id, "ok")
     /\ item_quantity' = item_quantity + record.adjustment_qty
     /\ bookings' = Drop(bookings, gone)
     /\ blines' = Drop(blines, gone)
     /\ adjustments' = Drop(adjustments, {id})
     /\ UNCHANGED << product, stock_quantity, orders, receipts, payments, returns, movements,
                     sptrans, bulks, nextid >>

\* ----------------------------------------------- returnable quantity ----
\* SaleReturnLine._compute_previously_returned_qty for the line of return ret
previously_returned_qty(rets, ret) ==
  confirmed_returned_except(rets, rets[ret].sale_order_id, ret)

\* an available quantity that never takes earlier returns off
available_return_qty_of_sale(ords, rets, ret) ==
  IF rets[ret].sale_order_id \notin DOMAIN ords THEN 0
  ELSE Max(ords[rets[ret].sale_order_id].order_lines[1].quantity, 0)

\* SaleReturnLine._compute_available_return_qty for the line of return ret
available_return_qty(ords, rets, ret) ==
  IF rets[ret].sale_order_id \notin DOMAIN ords THEN 0
  ELSE Max(ords[rets[ret].sale_order_id].order_lines[1].quantity
           - confirmed_returned_except(rets, rets[ret].sale_order_id, ret), 0)

\* CustomerSaleReturnLine._compute_returned_and_returnable: returnable_quantity
\* from the line's original_quantity and the total of the other confirmed lines
customer_returnable_quantity(original_quantity, total_prev) ==
  Max(original_quantity - total_prev, 0)

\* --------------------------------------------------- specifications ----
\* order_date of a new order: the first order's day, or a day after every
\* order on file (the default), or a day before every order on file
DateChoices ==
  IF DOMAIN orders = {} THEN {0}
  ELSE LET days == {orders[o].order_date : o \in DOMAIN orders}
       IN {(CHOOSE d \in days : \A e \in days : e <= d) + 1,
           (CHOOSE d \in days : \A e \in days : d <= e) - 1}

\* amounts a user may type on a bulk payment: a fixed part, all that is
\* outstanding, and more than is outstanding
BulkAmounts == {3 * Scale, total_due(receipts), total_due(receipts) + Scale}

\* commission_amount left to its compute method
Computed == 0 - 1

\* a bulk payment through one cash method
CashOnly(amount) == { << [payment_account_id |-> "cash", payment_amount |-> amount] >> }

\* the stored data, without the record of the last call
data == << product, stock_quantity, orders, receipts, payments, returns, bookings,
           blines, movements, sptrans, bulks, item_quantity, adjustments, nextid >>

\* a call that raised and wrote nothing
Rejected == lastop'.why # "ok" /\ UNCHANGED data

\* sale orders, returns, single and bulk receipt payments: every call that
\* writes something
Next ==
  \/ \E q \in 1..MaxQty, pr \in Prices :
        nextid["order"] < MaxOrders /\ SaleOrderCreate(0, q, pr, Computed) /\ ~Rejected
  \/ \E oid \in DOMAIN orders, q \in 1..MaxQty :
        SaleOrderWrite(oid, q, Computed) /\ ~Rejected
  \/ \E oid \in DOMAIN orders : SaleOrderUnlink(oid) /\ ~Rejected
  \/ \E rid \in DOMAIN receipts : \E a \in PayChoices(receipts[rid]) :
        ActionProcessReceipt(rid, a) /\ ~Rejected
  \/ \E pid \in DOMAIN payments : SalesPaymentUnlink(pid)
  \/ \E oid \in DOMAIN orders, q \in 1..MaxQty :
        nextid["return"] < MaxReturns /\ SaleReturnCreate(oid, q)
  \/ \E ret \in DOMAIN returns : SaleReturnConfirm(ret) /\ ~Rejected
  \/ \E ret \in DOMAIN returns, q \in 0..MaxQty : SaleReturnWrite(ret, q)
  \/ \E ret \in DOMAIN returns, known \in BOOLEAN : SaleReturnUnlink(ret, known) /\ ~Rejected
  \/ \E a \in BulkAmounts : \E m \in CashOnly(a) : BulkCreate(a, m) /\ ~Rejected
  \/ \E id \in DOMAIN bulks : BulkConfirm(id) /\ ~Rejected
  \/ \E id \in DOMAIN bulks : BulkUnlink(id)

Spec == Init /\ [][Next]_vars

\* sale orders, their returns and single receipt payments
PaymentNext ==
  \/ \E q \in 1..MaxQty, pr \in Prices : SaleOrderCreate(0, q, pr, Computed)
  \/ \E oid \in DOMAIN orders, q \in 1..MaxQty : SaleOrderWrite(oid, q, Computed)
  \/ \E oid \in DOMAIN orders : SaleOrderUnlink(oid)
  \/ \E rid \in DOMAIN receipts : \E a \in PayChoices(receipts[rid]) :
        ActionProcessReceipt(rid, a)
  \/ \E pid \in DOMAIN payments : SalesPaymentUnlink(pid)
  \/ \E oid \in DOMAIN orders, q \in 1..MaxQty :
        nextid["return"] < MaxReturns /\ SaleReturnCreate(oid, q)
  \/ \E ret \in DOMAIN returns : SaleReturnConfirm(ret)
  \/ \E ret \in DOMAIN returns, q \in 0..MaxQty : SaleReturnWrite(ret, q)
  \/ \E ret \in DOMAIN returns, known \in BOOLEAN : SaleReturnUnlink(ret, known)

PaymentSpec == Init /\ [][PaymentNext]_vars

\* sale orders and the single and bulk payments of their receipts
BulkNext ==
  \/ \E d \in DateChoices, q \in 1..MaxQty, pr \in Prices : SaleOrderCreate(d, q, pr, Computed)
  \/ \E rid \in DOMAIN receipts : \E a \in PayChoices(receipts[rid]) :
        ActionProcessReceipt(rid, a)
  \/ \E pid \in DOMAIN payments : SalesPaymentUnlink(pid)
  \/ \E a \in BulkAmounts : \E m \in MethodChoices(a) : BulkCreate(a, m)
  \/ \E id \in DOMAIN bulks : BulkConfirm(id)
  \/ \E id \in DOMAIN bulks : BulkUnlink(id)

BulkSpec == Init /\ [][BulkNext]_vars

\* sale orders with typed or computed commission amounts and their returns
LedgerNext ==
  \/ \E q \in 1..MaxQty, pr \in Prices, m \in {Computed} \cup ManualCommissions :
        nextid["order"] < MaxOrders /\ SaleOrderCreate(0, q, pr, m)
  \/ \E oid \in DOMAIN orders, q \in 1..MaxQty, m \in {Computed} \cup ManualCommissions :
        SaleOrderWrite(oid, q, m)
  \/ \E oid \in DOMAIN orders : SaleOrderUnlink(oid)
  \/ \E oid \in DOMAIN orders, q \in 0..MaxQty : SaleReturnCreate(oid, q)
  \/ \E ret \in DOMAIN returns : SaleReturnConfirm(ret)
  \/ \E ret \in DOMAIN returns, q \in 0..MaxQty : SaleReturnWrite(ret, q)
  \/ \E ret \in DOMAIN returns, known \in BOOLEAN : SaleReturnUnlink(ret, known)

LedgerSpec == Init /\ [][LedgerNext]_vars

\* sale orders, returns and stock adjustments of one plainly configured product
StockInit ==
  /\ Init
  /\ ~product.is_sales_commissionable
  /\ ~product.is_quantity_discount
  /\ product.commission = 0

StockNext ==
  \/ \E q \in 1..MaxQty, pr \in Prices : SaleOrderCreate(0, q, pr, Computed)
  \/ \E oid \in DOMAIN orders, q \in 1..MaxQty : SaleOrderWrite(oid, q, Computed)
  \/ \E oid \in DOMAIN orders : SaleOrderUnlink(oid)
  \/ \E oid \in DOMAIN orders, q \in 1..MaxQty :
        nextid["return"] < MaxReturns /\ SaleReturnCreate(oid, q)
  \/ \E ret \in DOMAIN returns : SaleReturnConfirm(ret)
  \/ \E ret \in DOMAIN returns, q \in 0..MaxQty : SaleReturnWrite(ret, q)
  \/ \E ret \in DOMAIN returns, known \in BOOLEAN : SaleReturnUnlink(ret, known)
  \/ \E q \in 1..MaxQty : StockAdjustmentCreate(q)
  \/ \E id \in DOMAIN adjustments, q \in 1..MaxQty + 1 : StockAdjustmentWrite(id, q)
  \/ \E id \in DOMAIN adjustments : StockAdjustmentUnlink(id)

StockSpec == StockInit /\ [][StockNext]_vars

\* sale orders of a product whose accounts, or whose salesperson's receivable
\* account, may be missing or held in another currency
AccountChoices ==
  {good_accounts, [good_accounts EXCEPT !["receivable"] = "missing"],
   [good_accounts EXCEPT !["cogs"] = "foreign"]}
    \cup { [good_accounts EXCEPT ![a] = f] :
             a \in {"asset", "income", "commission", "discount"},
             f \in {"missing", "foreign"} }

\* the products with either cost currency and rate, and with each account fault
PostingProducts ==
  { [p EXCEPT !.usd = u, !.rate = r] : p \in ProductConfigs, u \in BOOLEAN, r \in {1, 2} }
    \cup { [p EXCEPT !.accounts = a] : p \in ProductConfigs, a \in AccountChoices }

PostingInit ==
  /\ product \in PostingProducts
  /\ stock_quantity = InitStock
  /\ orders = << >>
  /\ receipts = << >>
  /\ payments = << >>
  /\ returns = << >>
  /\ bookings = << >>
  /\ blines = << >>
  /\ movements = EmptyBag
  /\ sptrans = EmptyBag
  /\ bulks = << >>
  /\ item_quantity = InitStock
  /\ adjustments = << >>
  /\ nextid = [t \in Tables |-> 1]
  /\ lastop = [op |-> "init", doc |-> 0, why |-> "ok", info |-> << >>]

PostingNext ==
  \/ \E q \in 1..MaxQty, pr \in Prices, m \in {Computed} \cup ManualCommissions :
        nextid["order"] < MaxOrders /\ SaleOrderCreate(0, q, pr, m)
  \/ \E oid \in DOMAIN orders, q \in 1..MaxQty, m \in {Computed} \cup ManualCommissions :
        SaleOrderWrite(oid, q, m)
  \/ \E oid \in DOMAIN orders : SaleOrderUnlink(oid)

PostingSpec == PostingInit /\ [][PostingNext]_vars

\* the recordsets of one or two existing orders, in either order
OrderRecordsets ==
  { << a >> : a \in DOMAIN orders }
    \cup { << x[1], x[2] >> : x \in {y \in (DOMAIN orders) \X (DOMAIN orders) : y[1] # y[2]} }

\* sale orders, their payments and their deletion one or several at a time
OrderNext ==
  \/ \E q \in 1..MaxQty, pr \in Prices : SaleOrderCreate(0, q, pr, Computed)
  \/ \E oid \in DOMAIN orders, q \in 1..MaxQty : SaleOrderWrite(oid, q, Computed)
  \/ \E rid \in DOMAIN receipts : \E a \in PayChoices(receipts[rid]) :
        ActionProcessReceipt(rid, a)
  \/ \E ids \in OrderRecordsets : SaleOrderUnlinkAll(ids)

OrderSpec == Init /\ [][OrderNext]_vars

\* sale orders whose lines are edited, added and removed, their deletion and
\* the returns of orders of one line
LinesNext ==
  \/ \E q \in 1..MaxQty, pr \in Prices : SaleOrderCreate(0, q, pr, Computed)
  \/ \E oid \in DOMAIN orders, q \in 1..MaxQty :
        Len(orders[oid].order_lines) = 1 /\ SaleOrderWrite(oid, q, Computed)
  \/ \E oid \in DOMAIN orders, q \in 1..MaxQty, pr \in Prices :
        SaleOrderWriteLines(oid, "add", q, pr)
  \/ \E oid \in DOMAIN orders, pr \in Prices : SaleOrderWriteLines(oid, "remove", 0, pr)
  \/ \E oid \in DOMAIN orders : SaleOrderUnlink(oid)
  \/ \E oid \in DOMAIN orders, q \in 1..MaxQty :
        /\ Len(orders[oid].order_lines) = 1
        /\ nextid["return"] < MaxReturns
        /\ SaleReturnCreate(oid, q)
  \/ \E ret \in DOMAIN returns : SaleReturnConfirm(ret)

LinesSpec == Init /\ [][LinesNext]_vars

\* --------------------------------------------------- customer sales ----
\* customer sale orders (idil.customer.sale.order) and their returns
\* (idil.customer.sale.return) use the tables of the state with their own
\* fields: an order holds payment_method and order_lines, a receipt and a
\* booking name their order in cusotmer_sale_order_id, a booking row names
\* the return line << return id, line number >> it reverses for, or << >>
PaymentMethods == {"cash", "ar"}

\* CustomerSaleOrderLine._compute_subtotal
customer_subtotal(l) == Scale * l.quantity * l.price_unit

\* CustomerSaleOrder._compute_order_total
customer_order_total(o) ==
  SumSeq(SeqMap(o.order_lines, LAMBDA l : customer_subtotal(l)))

\* CustomerSaleOrder.book_accounting_entry: product.cost * line.quantity
customer_cost_amount(p, quantity) == Scale * p.cost * quantity

\* a booking row of a customer document
CRow(booking, account, type, dr, cr, line) ==
  [booking |-> booking, account |-> account, transaction_type |-> type,
   dr_amount |-> dr, cr_amount |-> cr, customer_sales_return_id |-> line]

\* CustomerSaleOrder.book_accounting_entry: the four rows of one order line
customer_line_entries(p, b, payment_method, l) ==
  << CRow(b, "cogs", "dr", customer_cost_amount(p, l.quantity), 0, << >>),
     CRow(b, "asset", "cr", 0, customer_cost_amount(p, l.quantity), << >>),
     CRow(b, IF payment_method = "cash" THEN "cash" ELSE "receivable", "dr",
          customer_subtotal(l), 0, << >>),
     CRow(b, "income", "cr", 0, customer_subtotal(l), << >>) >>

RECURSIVE customer_entries(_, _, _, _)
customer_entries(p, b, payment_method, lines) ==
  IF lines = << >> THEN << >>
  ELSE customer_line_entries(p, b, payment_method, Head(lines))
       \o customer_entries(p, b, payment_method, Tail(lines))

\* creating the order lines one after the other: _check_quantity_and_price
\* of the line, then update_product_stock; the first error, or "ok"
RECURSIVE customer_lines_error(_, _)
customer_lines_error(stock, lines) ==
  IF lines = << >> THEN "ok"
  ELSE IF Head(lines).quantity <= 0 THEN "quantity"
  ELSE IF Head(lines).price_unit <= 0 THEN "price"
  ELSE IF stock - Head(lines).quantity < 0 THEN "stock"
  ELSE customer_lines_error(stock - Head(lines).quantity, Tail(lines))

\* CustomerSaleOrder.book_accounting_entry: the ValidationError it raises, or "ok"
customer_posting_error(p, o) ==
  IF p.accounts["receivable"] = "missing" THEN "receivable account"
  ELSE IF p.rate <= 0 THEN "rate"
  ELSE IF o.order_lines = << >> THEN "no lines"
  ELSE IF p.accounts["asset"] # "ok" THEN "asset account"
  ELSE IF p.accounts["income"] # "ok" THEN "income account"
  ELSE IF p.accounts["cogs"] = "missing" THEN "cogs account"
  ELSE "ok"

customer_sale_movement(oid, l) ==
  [sale_order_id |-> oid, movement_type |-> "out", quantity |-> 0 - l.quantity,
   source_document |-> << "customer order", oid >>]

\* CustomerSaleOrder.create with the order lines lines; an error raised on
\* the way makes the whole create fail
CustomerSaleOrderCreate(payment_method, lines) ==
  LET oid == nextid["order"]
      rid == nextid["receipt"]
      bid == nextid["booking"]
      o == [payment_method |-> payment_method, order_lines |-> lines]
      why == IF customer_lines_error(stock_quantity, lines) # "ok"
             THEN customer_lines_error(stock_quantity, lines)
             ELSE customer_posting_error(product, o)
  IN /\ oid <= MaxOrders
     /\ bid <= MaxBookings
     /\ Called("CustomerSaleOrder.create", oid, why)
     /\ IF why # "ok"
        THEN UNCHANGED << product, stock_quantity, orders, receipts, payments, returns,
                          bookings, blines, movements, sptrans, bulks, item_quantity,
                          adjustments, nextid >>
        ELSE /\ stock_quantity' =
                  stock_quantity - SumSeq(SeqMap(lines, LAMBDA l : l.quantity))
             /\ orders' = Put(orders, oid, o)
             /\ movements' = movements
                  (+) SeqToBag(SeqMap(lines, LAMBDA l : customer_sale_movement(oid, l)))
             /\ bookings' = Put(bookings, bid,
                   [source |-> "Customer Sale", cusotmer_sale_order_id |-> oid,
                    customer_sales_return_id |-> << >>,
                    amount |-> customer_order_total(o)])
             /\ blines' = Put(blines, bid,
                              customer_entries(product, bid, payment_method, lines))
             /\ receipts' =
                  IF payment_method = "cash" THEN receipts
                  ELSE Put(receipts, rid,
                           [cusotmer_sale_order_id |-> oid,
                            due_amount |-> customer_order_total(o), paid_amount |-> 0,
                            remaining_amount |-> customer_order_total(o),
                            payment_status |-> "pending"])
             /\ nextid' = [nextid EXCEPT
                             !["order"] = oid + 1, !["booking"] = bid + 1,
                             !["receipt"] = IF payment_method = "cash" THEN rid ELSE rid + 1]
             /\ UNCHANGED << product, payments, returns, sptrans, bulks, item_quantity,
                             adjustments >>

\* return_quantity of the lines of one return that name order line k
line_returned(lines, k) ==
  SumSeq(SeqMap(lines, LAMBDA l : IF l.sale_order_line_id = k
                                  THEN l.return_quantity ELSE 0))

\* CustomerSaleReturnLine._compute_returned_and_returnable: total_prev, the
\* return_quantity of the lines of confirmed returns on order line k of oid
RECURSIVE customer_total_prev(_, _, _, _)
customer_total_prev(rets, ids, oid, k) ==
  IF ids = {} THEN 0
  ELSE LET r == first_of(ids)
       IN (IF rets[r].state = "confirmed" /\ rets[r].sale_order_id = oid
           THEN line_returned(rets[r].return_lines, k) ELSE 0)
          + customer_total_prev(rets, ids \ {r}, oid, k)

\* CustomerSaleReturnLine._check_return_quantity over the lines of a return:
\* the first error, or "ok"
RECURSIVE check_return_quantity(_)
check_return_quantity(lines) ==
  IF lines = << >> THEN "ok"
  ELSE IF Head(lines).return_quantity <= 0 THEN "quantity"
  ELSE IF Head(lines).return_quantity > Head(lines).returnable_quantity THEN "returnable"
  ELSE check_return_quantity(Tail(lines))

\* saving a draft return of order oid: the lines _onchange_sale_order_id
\* fills in that the user keeps, with the return_quantity typed on each;
\* returnable_quantity is computed when the line is stored
CustomerSaleReturnCreate(oid, picks) ==
  LET ret == nextid["return"]
      lines == [i \in 1..Len(picks) |->
                  LET k == picks[i].sale_order_line_id
                      ol == orders[oid].order_lines[k]
                  IN [sale_order_line_id |-> k,
                      original_quantity |-> ol.quantity,
                      price_unit |-> ol.price_unit,
                      returnable_quantity |->
                        customer_returnable_quantity(
                          ol.quantity,
                          customer_total_prev(returns, DOMAIN returns, oid, k)),
                      return_quantity |-> picks[i].return_quantity]]
  IN /\ oid \in DOMAIN orders
     /\ ret <= MaxReturns
     /\ Called("CustomerSaleReturn.create", ret, check_return_quantity(lines))
     /\ IF check_return_quantity(lines) # "ok"
        THEN UNCHANGED << product, stock_quantity, orders, receipts, payments, returns,
                          bookings, blines, movements, sptrans, bulks, item_quantity,
                          adjustments, nextid >>
        ELSE /\ returns' = Put(returns, ret,
                   [sale_order_id |-> oid, state |-> "draft", return_lines |-> lines])
             /\ nextid' = [nextid EXCEPT !["return"] = ret + 1]
             /\ UNCHANGED << product, stock_quantity, orders, receipts, payments,
                             bookings, blines, movements, sptrans, bulks, item_quantity,
                             adjustments >>

\* CustomerSaleReturn.action_process: one turn of the loop over the return
\* lines, on the figures st the turns before left: stock, movements,
\* bookings and rows, the receipts, the next booking id, total_return_amount
\* and the error raised so far.  The receipt is written in every turn, with
\* the total accumulated up to this line.  For a USD bill-of-cost currency
\* the handler reads self.rate, a field the return does not declare.
process_line(st, p, ret, rt, k) ==
  LET line == rt.return_lines[k]
      oid == rt.sale_order_id
      originals == {b \in DOMAIN st.bookings :
                      st.bookings[b].cusotmer_sale_order_id = oid}
      reverse_amount ==
        Scale * orders[oid].order_lines[line.sale_order_line_id].price_unit
              * line.return_quantity
      total == st.total + reverse_amount
      rows == SeqMap(lines_of(st.blines, first_of(originals)),
                     LAMBDA orig :
                       CRow(st.bid, orig.account,
                            IF orig.transaction_type = "dr" THEN "cr" ELSE "dr",
                            IF orig.transaction_type = "cr" THEN reverse_amount ELSE 0,
                            IF orig.transaction_type = "dr" THEN reverse_amount ELSE 0,
                            << ret, k >>))
      rs == {r \in DOMAIN st.receipts : st.receipts[r].cusotmer_sale_order_id = oid}
      r == first_of(rs)
      new_due == Max(st.receipts[r].due_amount - total, 0)
      new_remaining == Max(new_due - st.receipts[r].paid_amount, 0)
  IN IF line.return_quantity <= 0 THEN st
     ELSE IF line.return_quantity > line.original_quantity
     THEN [st EXCEPT !.why = "exceeds original"]
     ELSE IF originals = {} THEN [st EXCEPT !.why = "original transaction"]
     ELSE IF p.usd THEN [st EXCEPT !.why = "rate attribute"]
     ELSE IF total > 0 /\ rs # {} /\ total > st.receipts[r].remaining_amount
     THEN [st EXCEPT !.why = "exceeds remaining"]
     ELSE [st EXCEPT
             !.stock = @ + line.return_quantity,
             !.movements = @ (+) SetToBag({[sale_order_id |-> oid, movement_type |-> "in",
                                            quantity |-> line.return_quantity,
                                            source_document |-> << "customer return", ret >>]}),
             !.bookings = Put(@, st.bid,
                              [source |-> "Sale Return", cusotmer_sale_order_id |-> 0,
                               customer_sales_return_id |-> << ret, k >>,
                               amount |-> reverse_amount]),
             !.blines = Put(@, st.bid, rows),
             !.bid = @ + 1,
             !.total = total,
             !.receipts = IF total > 0 /\ rs # {}
                          THEN [@ EXCEPT ![r] =
                                  [@ EXCEPT !.due_amount = new_due,
                                            !.remaining_amount = new_remaining,
                                            !.payment_status =
                                               IF new_remaining <= 0 THEN "paid"
                                               ELSE "pending"]]
                          ELSE @]

\* the loop over the return lines from line k on; it ends at the first raise
RECURSIVE process_lines(_, _, _, _, _)
process_lines(st, p, ret, rt, k) ==
  IF k > Len(rt.return_lines) \/ st.why # "ok" THEN st
  ELSE process_lines(process_line(st, p, ret, rt, k), p, ret, rt, k + 1)

\* CustomerSaleReturn.action_process of one return
CustomerSaleReturnProcess(ret) ==
  LET rt == returns[ret]
      st == process_lines([stock |-> stock_quantity, movements |-> movements,
                           bookings |-> bookings, blines |-> blines,
                           receipts |-> receipts, bid |-> nextid["booking"],
                           total |-> 0, why |-> "ok"],
                          product, ret, rt, 1)
  IN /\ ret \in DOMAIN returns
     /\ nextid["booking"] + Len(rt.return_lines) - 1 <= MaxBookings
     /\ IF rt.state # "draft"
        THEN /\ Called("CustomerSaleReturn.action_process", ret, "state")
             /\ UNCHANGED << product, stock_quantity, orders, receipts, payments, returns,
                             bookings, blines, movements, sptrans, bulks, item_quantity,
                             adjustments, nextid >>
        ELSE IF st.why # "ok"
        THEN /\ Called("CustomerSaleReturn.action_process", ret, st.why)
             /\ UNCHANGED << product, stock_quantity, orders, receipts, payments, returns,
                             bookings, blines, movements, sptrans, bulks, item_quantity,
                             adjustments, nextid >>
        ELSE /\ Called("CustomerSaleReturn.action_process", ret, "ok")
             /\ stock_quantity' = st.stock
             /\ movements' = st.movements
             /\ bookings' = st.bookings
             /\ blines' = st.blines
             /\ receipts' = st.receipts
             /\ returns' = [returns EXCEPT ![ret].state = "confirmed"]
             /\ nextid' = [nextid EXCEPT !["booking"] = st.bid]
             /\ UNCHANGED << product, orders, payments, sptrans, bulks, item_quantity,
                             adjustments >>

\* the order lines typed on a new customer order
CustomerOrderLines ==
  UNION { [1..n -> [quantity : 0..MaxQty, price_unit : Prices]] : n \in 0..MaxLines }

\* the return lines kept on a draft return of order oid: one of the order's
\* lines, or all of them
CustomerPicks(oid) ==
  LET n == Len(orders[oid].order_lines)
  IN { << [sale_order_line_id |-> k, return_quantity |-> q] >> :
         k \in 1..n, q \in 0..MaxQty }
     \cup { [k \in 1..n |-> [sale_order_line_id |-> k, return_quantity |-> f[k]]] :
              f \in [1..n -> 1..MaxQty] }

\* customer sale orders and their returns
CustomerNext ==
  \/ \E pm \in PaymentMethods, lines \in CustomerOrderLines :
        CustomerSaleOrderCreate(pm, lines)
  \/ \E oid \in DOMAIN orders : \E picks \in CustomerPicks(oid) :
        CustomerSaleReturnCreate(oid, picks)
  \/ \E ret \in DOMAIN returns : CustomerSaleReturnProcess(ret)

CustomerSpec == Init /\ [][CustomerNext]_vars

\* ------------------------------------------------------- properties ----
balanced(rows) == Abs(total_dr(rows) - total_cr(rows)) <= Eps

\* C1: the booking SaleOrder.book_accounting_entry creates for a sale order
\* has equal total debit and total credit (within 0.01), whatever the line's
\* commission_amount and discount_amount and whether or not the product is
\* commissionable.
C1_SaleBookingBalanced ==
  \A b \in DOMAIN bookings :
    bookings[b].source = "Sales Order" => balanced(lines_of(blines, b))

\* C2: the booking lines written when a return is confirmed and when a
\* confirmed return is edited have equal total debit and total credit (within
\* 0.01), for every product configuration.
C2_ReturnBookingBalanced ==
  \A b \in DOMAIN bookings :
    bookings[b].source = "Sales Return" => balanced(lines_of(blines, b))

\* C3: after any sequence of sale order, return and stock adjustment
\* operations neither the product's stock_quantity nor the item's quantity is
\* below zero.
C3_StockNeverNegative == stock_quantity >= 0 /\ item_quantity >= 0

\* sum of f over the ids S, f a function on ids
RECURSIVE SumOver(_, _)
SumOver(f, S) ==
  IF S = {} THEN 0
  ELSE LET x == CHOOSE y \in S : TRUE IN f[x] + SumOver(f, S \ {x})

C5_PaidWithinDue ==
  \A r \in DOMAIN receipts : receipts[r].paid_amount <= receipts[r].due_amount

\* a return was confirmed or edited on an order whose receipt had been paid
\* more than is now due: the paid amount was brought down to the due amount
C5_Witness ==
  /\ lastop.op \in {"SaleReturn.action_confirm", "SaleReturn.write"}
  /\ lastop.why = "ok"
  /\ \E r \in DOMAIN receipts :
       /\ receipts[r].paid_amount = receipts[r].due_amount
       /\ \E p \in DOMAIN payments :
            /\ payments[p].sales_receipt_id = r
            /\ payments[p].paid_amount > receipts[r].due_amount

\* the order has a receipt on which something was paid
PaidOrder(oid) ==
  \E r \in DOMAIN receipts :
    receipts[r].sales_order_id = oid /\ receipts[r].paid_amount > 0

\* C6: editing or deleting a sale order whose receipt has paid_amount > 0
\* fails with an error and leaves stock, bookings, product movements,
\* salesperson transactions and the receipt unchanged.
C6_PaidOrderLocked ==
  [][ ( /\ lastop'.op \in {"SaleOrder.write", "SaleOrder.unlink"}
        /\ lastop'.doc \in DOMAIN orders
        /\ PaidOrder(lastop'.doc) )
      => ( /\ lastop'.why # "ok"
           /\ UNCHANGED << stock_quantity, bookings, blines, movements, sptrans,
                           receipts, orders >> ) ]_vars

\* a delete of an order with a paid receipt was refused
C6_Witness ==
  /\ lastop.op = "SaleOrder.unlink"
  /\ lastop.why = "paid"
  /\ lastop.doc \in DOMAIN orders
  /\ PaidOrder(lastop.doc)

\* C7: SaleReturn.write and SaleReturn.unlink on a confirmed return whose
\* order's receipt has something paid on it are rejected and change no
\* stock, receipt or ledger data.
C7_PaidReturnLocked ==
  [][ ( /\ lastop'.op \in {"SaleReturn.write", "SaleReturn.unlink"}
        /\ lastop'.doc \in DOMAIN returns
        /\ returns[lastop'.doc].state = "confirmed"
        /\ \E r \in DOMAIN receipts :
             /\ receipts[r].sales_order_id = returns[lastop'.doc].sale_order_id
             /\ receipts[r].paid_amount > 0 )
      => ( /\ lastop'.why # "ok"
           /\ UNCHANGED << stock_quantity, receipts, bookings, blines, returns >> ) ]_vars

\* quantity on the confirmed returns of ret's order other than ret itself
ReturnedByOthers(ret) ==
  SumOver([r \in DOMAIN returns |-> returns[r].return_lines[1].returned_quantity],
          {r \in DOMAIN returns : /\ r # ret
                                  /\ returns[r].sale_order_id = returns[ret].sale_order_id
                                  /\ returns[r].state = "confirmed"})
\* quantity the order of return ret sold
Sold(ret) == orders[returns[ret].sale_order_id].order_lines[1].quantity

\* C8: action_confirm of a draft return whose returned_quantity exceeds the
\* sold quantity less the quantity on other confirmed returns of the order
\* raises the ValidationError quoting the already returned, available and
\* original quantities; the return stays draft and no booking, stock or
\* receipt changes.
C8_OverReturnRejected ==
  [][ ( /\ lastop'.op = "SaleReturn.action_confirm"
        /\ lastop'.doc \in DOMAIN returns
        /\ returns[lastop'.doc].state = "draft"
        /\ returns[lastop'.doc].return_lines[1].returned_quantity
             > Sold(lastop'.doc) - ReturnedByOthers(lastop'.doc) )
      => ( /\ lastop'.why = "over return"
           /\ lastop'.info = << ReturnedByOthers(lastop'.doc),
                                Sold(lastop'.doc) - ReturnedByOthers(lastop'.doc),
                                Sold(lastop'.doc) >>
           /\ returns'[lastop'.doc].state = "draft"
           /\ UNCHANGED << bookings, blines, stock_quantity, receipts, movements,
                           sptrans >> ) ]_vars

\* a confirmation was refused on an order part of which had been returned
C8_Witness ==
  /\ lastop.op = "SaleReturn.action_confirm"
  /\ lastop.why = "over return"
  /\ lastop.doc \in DOMAIN returns
  /\ returns[lastop.doc].state = "draft"
  /\ ReturnedByOthers(lastop.doc) > 0
  /\ returns[lastop.doc].return_lines[1].returned_quantity <= Sold(lastop.doc)

Pending == {r \in DOMAIN receipts : receipts[r].payment_status = "pending"}
Owed(r) == receipts[r].due_amount - receipts[r].paid_amount
Older(q, r) ==
  \/ receipts[q].receipt_date < receipts[r].receipt_date
  \/ (receipts[q].receipt_date = receipts[r].receipt_date /\ q < r)
\* what paying amount oldest receipt first gives receipt r
GreedyShare(amount, r) ==
  IF r \notin Pending THEN 0
  ELSE Min(Owed(r),
           Max(amount - SumOver([q \in DOMAIN receipts |-> Owed(q)],
                                {q \in Pending : Older(q, r)}), 0))

\* C10: confirming a bulk payment whose amount_to_pay does not exceed what
\* is outstanding on the pending receipts (its payment accounts being in the
\* receivable's currency) raises no error, gives every receipt, oldest
\* receipt_date first, min(remaining payment, due - paid), the shares adding
\* up to amount_to_pay, and leaves the bulk payment confirmed.
C10_BulkAllocation ==
  [][ ( /\ lastop'.op = "ReceiptBulkPayment.action_confirm_payment"
        /\ lastop'.doc \in DOMAIN bulks
        /\ bulks[lastop'.doc].state = "draft"
        /\ bulks[lastop'.doc].amount_to_pay
             <= SumOver([q \in DOMAIN receipts |-> Owed(q)], Pending)
        /\ \A k \in 1..Len(bulks[lastop'.doc].payment_method_ids) :
             account_currency(bulks[lastop'.doc].payment_method_ids[k].payment_account_id)
               = receivable_currency )
      => ( /\ lastop'.why = "ok"
           /\ bulks'[lastop'.doc].state = "confirmed"
           /\ DOMAIN receipts' = DOMAIN receipts
           /\ \A r \in DOMAIN receipts :
                receipts'[r].paid_amount - receipts[r].paid_amount
                  = GreedyShare(bulks[lastop'.doc].amount_to_pay, r)
           /\ SumOver([r \in DOMAIN receipts |->
                         receipts'[r].paid_amount - receipts[r].paid_amount],
                      DOMAIN receipts) = bulks[lastop'.doc].amount_to_pay ) ]_vars

\* the receipts on the lines of bulk payment id, and what is outstanding on them
LineReceipts(id) == {bulks[id].line_ids[k].receipt_id : k \in 1..Len(bulks[id].line_ids)}
OwedOnLines(id) ==
  SumOver([q \in DOMAIN receipts |-> Owed(q)], LineReceipts(id) \cap DOMAIN receipts)
\* every payment method of bulk payment id is in the receivable's currency
InReceivableCurrency(id) ==
  \A k \in 1..Len(bulks[id].payment_method_ids) :
    account_currency(bulks[id].payment_method_ids[k].payment_account_id)
      = receivable_currency

\* C11: confirming a bulk payment whose amount_to_pay exceeds what is
\* outstanding on the receipts of its lines pays every one of those receipts
\* in full, then raises the error for the unused remainder; the receipts stay
\* paid and the bulk payment stays draft.
C11_ExcessBulkPayment ==
  [][ ( /\ lastop'.op = "ReceiptBulkPayment.action_confirm_payment"
        /\ lastop'.doc \in DOMAIN bulks
        /\ bulks[lastop'.doc].state = "draft"
        /\ LineReceipts(lastop'.doc) \subseteq DOMAIN receipts
        /\ InReceivableCurrency(lastop'.doc)
        /\ bulks[lastop'.doc].amount_to_pay > OwedOnLines(lastop'.doc) )
      => ( /\ lastop'.why = "partial"
           /\ bulks'[lastop'.doc].state = "draft"
           /\ \A r \in LineReceipts(lastop'.doc) :
                /\ receipts'[r].paid_amount = receipts[r].due_amount
                /\ receipts'[r].remaining_amount = 0
                /\ receipts'[r].payment_status = "paid" ) ]_vars

\* the bookings a bulk payment completed: those its payment records hold
CompletedBulkBookings ==
  UNION {payments[p].bookings : p \in {q \in DOMAIN payments : payments[q].bulk = 1}}
\* the payment record that holds booking b
PaymentOf(b) == CHOOSE p \in DOMAIN payments : b \in payments[p].bookings

\* C12: every booking a bulk payment completed for a receipt holds debit
\* lines on distinct payment accounts followed by exactly one credit line on
\* the receivable account, and the debits add up to the credit, which is the
\* amount applied to the receipt.
C12_BulkBookingShape ==
  \A b \in CompletedBulkBookings :
    /\ b \in DOMAIN bookings
    /\ b \in DOMAIN blines
    /\ LET rows == blines[b]
           n == Len(rows)
       IN /\ n >= 2
          /\ rows[n].account = "receivable"
          /\ rows[n].dr_amount = 0
          /\ rows[n].cr_amount = payments[PaymentOf(b)].paid_amount
          /\ \A j \in 1..(n - 1) :
               /\ rows[j].account \in Accounts
               /\ rows[j].dr_amount > 0
               /\ rows[j].cr_amount = 0
          /\ \A i, j \in 1..(n - 1) : i # j => rows[i].account # rows[j].account
          /\ SumOver([j \in 1..n |-> rows[j].dr_amount], 1..n) = rows[n].cr_amount

\* a completed booking that drew on two payment accounts
C12_Witness ==
  \E b \in CompletedBulkBookings :
    /\ b \in DOMAIN blines
    /\ Len(blines[b]) = 3
    /\ blines[b][1].account # blines[b][2].account

\* the bookings the step created
NewBookings == DOMAIN bookings' \ DOMAIN bookings

\* C13: when the confirmation of a bulk payment fails on the currency of a
\* payment account, the booking of the receipt it failed on holds no line.
C13_CurrencyBeforeLines ==
  [][ ( /\ lastop'.op = "ReceiptBulkPayment.action_confirm_payment"
        /\ lastop'.why = "currency" )
      => \A b \in NewBookings :
           (\A p \in DOMAIN payments' : b \notin payments'[p].bookings)
             => b \notin DOMAIN blines' ]_vars

\* the debit rows the step wrote on account a, as (booking, row) pairs
NewDebits(a) ==
  {x \in NewBookings \X (1..(Cardinality(Accounts) + 1)) :
     /\ x[1] \in DOMAIN blines'
     /\ x[2] <= Len(blines'[x[1]])
     /\ blines'[x[1]][x[2]].account = a
     /\ blines'[x[1]][x[2]].dr_amount > 0}
Debited(a) == SumOver([x \in NewDebits(a) |-> blines'[x[1]][x[2]].dr_amount], NewDebits(a))
\* what the methods of bulk payment id entered for account a
MethodsOn(id, a) ==
  {k \in 1..Len(bulks[id].payment_method_ids) :
     bulks[id].payment_method_ids[k].payment_account_id = a}
Entered(id, a) ==
  SumOver([k \in MethodsOn(id, a) |-> bulks[id].payment_method_ids[k].payment_amount],
          MethodsOn(id, a))
\* the place of account a in the list of methods
ListedAt(id, a) == CHOOSE k \in MethodsOn(id, a) : \A j \in MethodsOn(id, a) : k <= j

ReturnRows(bl, ret) ==
  {x \in (DOMAIN bl) \X (1..6) : x[2] <= Len(bl[x[1]]) /\ bl[x[1]][x[2]].sale_return_id = ret}
ReturnTotals(bl, ret) ==
  << SumOver([x \in ReturnRows(bl, ret) |-> bl[x[1]][x[2]].dr_amount], ReturnRows(bl, ret)),
     SumOver([x \in ReturnRows(bl, ret) |-> bl[x[1]][x[2]].cr_amount], ReturnRows(bl, ret)) >>
\* total debit and total credit of the rows of the sale bookings of order oid
OrderRows(bk, bl, oid) ==
  {x \in (DOMAIN bl) \X (1..6) :
     /\ x[2] <= Len(bl[x[1]])
     /\ x[1] \in DOMAIN bk
     /\ bk[x[1]].source = "Sales Order"
     /\ bk[x[1]].sale_order_id = oid}
OrderTotals(bk, bl, oid) ==
  << SumOver([x \in OrderRows(bk, bl, oid) |-> bl[x[1]][x[2]].dr_amount],
             OrderRows(bk, bl, oid)),
     SumOver([x \in OrderRows(bk, bl, oid) |-> bl[x[1]][x[2]].cr_amount],
             OrderRows(bk, bl, oid)) >>
\* due, paid and remaining amount of every receipt
ReceiptAmounts(rs) ==
  [r \in DOMAIN rs |-> << rs[r].due_amount, rs[r].paid_amount, rs[r].remaining_amount >>]

\* C15: an edit that follows an edit of the same document (a sale order, a
\* confirmed return) and writes the values the document holds since leaves
\* the total debit and total credit of the document's booking lines, the
\* stock and the due, paid and remaining amount of the receipts as they were.
C15_RepeatedEdit ==
  [][ /\ ( /\ lastop.op = "SaleReturn.write"
           /\ lastop.why = "ok"
           /\ lastop'.op = "SaleReturn.write"
           /\ lastop'.doc = lastop.doc
           /\ lastop.doc \in DOMAIN returns
           /\ returns[lastop.doc].state = "confirmed"
           /\ lastop'.why = "ok"
           /\ returns' = returns )
         => ( /\ ReturnTotals(blines', lastop.doc) = ReturnTotals(blines, lastop.doc)
              /\ stock_quantity' = stock_quantity
              /\ ReceiptAmounts(receipts') = ReceiptAmounts(receipts) )
      /\ ( /\ lastop.op = "SaleOrder.write"
           /\ lastop.why = "ok"
           /\ lastop'.op = "SaleOrder.write"
           /\ lastop'.doc = lastop.doc
           /\ lastop'.why = "ok"
           /\ orders' = orders )
         => ( /\ OrderTotals(bookings', blines', lastop.doc)
                   = OrderTotals(bookings, blines, lastop.doc)
              /\ stock_quantity' = stock_quantity
              /\ ReceiptAmounts(receipts') = ReceiptAmounts(receipts) ) ]_vars

\* a confirmed return was edited at least twice, the last time with the
\* values it held
C15_Witness ==
  /\ lastop.op = "SaleReturn.write"
  /\ lastop.why = "ok"
  /\ lastop.info = << "same" >>
  /\ lastop.doc \in DOMAIN returns
  /\ returns[lastop.doc].state = "confirmed"
  /\ returns[lastop.doc].return_lines[1].returned_quantity > 0
  /\ Cardinality({b \in DOMAIN bookings : bookings[b].sale_return_id = lastop.doc}) >= 3

\* the bookings tied to return ret and to the sale of order oid
BookingsOfReturn(ret) == {b \in DOMAIN bookings : bookings[b].sale_return_id = ret}
SaleBookingsOf(oid) ==
  {b \in DOMAIN bookings : bookings[b].source = "Sales Order" /\ bookings[b].sale_order_id = oid}

\* C16: every sale order and every confirmed return has exactly one booking
\* tied to it, and that booking holds all the booking lines of the document.
C16_OneBookingPerDocument ==
  /\ \A oid \in DOMAIN orders :
       /\ Cardinality(SaleBookingsOf(oid)) = 1
       /\ SaleBookingsOf(oid) \subseteq DOMAIN blines
  /\ \A ret \in DOMAIN returns :
       returns[ret].state = "confirmed"
         => /\ Cardinality(BookingsOfReturn(ret)) = 1
            /\ \A x \in ReturnRows(blines, ret) : x[1] \in BookingsOfReturn(ret)

\* C17: every sales receipt is marked paid exactly when nothing remains on it.
C17_PaidIffNothingRemains ==
  \A r \in DOMAIN receipts :
    (receipts[r].payment_status = "paid") <=> (receipts[r].remaining_amount <= 0)

\* account, debit and credit of every row of a booking, in the order written
RECURSIVE Figures(_)
Figures(rows) ==
  IF rows = << >> THEN << >>
  ELSE << << Head(rows).account, Head(rows).dr_amount, Head(rows).cr_amount >> >>
         \o Figures(Tail(rows))

\* an order line without discount and without commission
PlainLine(l) ==
  /\ l.commission_amount = 0
  /\ ~product.is_quantity_discount \/ product.discount = 0

\* cost and price of an order line, in the receivable's currency
CostOf(l) ==
  Scale * product.cost * l.quantity * (IF product.usd THEN product.rate ELSE 1)
PriceOf(l) == Scale * l.quantity * l.price_unit

\* the four rows of an order line without discount and commission
PlainRows(l) ==
  << << "cogs", CostOf(l), 0 >>, << "asset", 0, CostOf(l) >>,
     << "receivable", PriceOf(l), 0 >>, << "income", 0, PriceOf(l) >> >>

\* the product and the order of the worked example: 10 units at price 5,
\* cost 3, rate 1
ExampleProduct ==
  [is_sales_commissionable |-> FALSE, commission |-> 0, is_quantity_discount |-> FALSE,
   discount |-> 0, cost |-> 3, usd |-> FALSE, rate |-> 1, accounts |-> good_accounts]
ExampleOrder ==
  [order_date |-> 0,
   order_lines |-> << [quantity |-> 10, price_unit |-> 5, commission_amount |-> 0] >>]

ReturnedElsewhere(rets, r2) ==
  SumOver([r \in DOMAIN rets |->
             IF /\ r # r2
                /\ rets[r].sale_order_id = rets[r2].sale_order_id
                /\ rets[r].state = "confirmed"
             THEN rets[r].return_lines[1].returned_quantity ELSE 0],
          DOMAIN rets)
Returnable(rets, r2) ==
  Max(orders[rets[r2].sale_order_id].order_lines[1].quantity - ReturnedElsewhere(rets, r2), 0)

\* the four rows that reverse q units of order line l
ReversalRows(l, q) ==
  { << "cogs", 0, CostOf([l EXCEPT !.quantity = q]) >>,
    << "asset", CostOf([l EXCEPT !.quantity = q]), 0 >>,
    << "receivable", 0, PriceOf([l EXCEPT !.quantity = q]) >>,
    << "income", PriceOf([l EXCEPT !.quantity = q]), 0 >> }

\* C19: confirming a return of q units of a line sold without discount and
\* commission adds q to the stock, takes q off what the other returns of the
\* order may still give back, and posts one new booking with a COGS credit
\* and an asset debit of q x cost and a receivable credit and an income debit
\* of q x price.
C19_ReturnReversesSale ==
  [][ ( /\ lastop'.op = "SaleReturn.action_confirm"
        /\ lastop'.why = "ok"
        /\ PlainLine(orders[returns[lastop'.doc].sale_order_id].order_lines[1]) )
      => LET ret == lastop'.doc
             l == orders[returns[ret].sale_order_id].order_lines[1]
             q == returns[ret].return_lines[1].returned_quantity
         IN /\ stock_quantity' = stock_quantity + q
            /\ \A r2 \in DOMAIN returns \ {ret} :
                 returns[r2].sale_order_id = returns[ret].sale_order_id
                   => Returnable(returns', r2) = Returnable(returns, r2) - q
            /\ Cardinality(NewBookings) = 1
            /\ \A b \in NewBookings :
                 /\ bookings'[b].sale_return_id = ret
                 /\ \A row \in ReversalRows(l, q) :
                      \E k \in 1..Len(blines'[b]) : Figures(blines'[b])[k] = row ]_vars

\* an account the posting of order line l refers to is missing or is held in
\* a currency other than the receivable's
BadAccount(l) ==
  \/ \E a \in {"receivable", "asset", "income", "cogs"} : product.accounts[a] # "ok"
  \/ l.commission_amount > 0 /\ product.accounts["commission"] # "ok"
  \/ /\ product.is_quantity_discount /\ product.discount > 0
     /\ l.quantity > 0 /\ l.price_unit > 0
     /\ product.accounts["discount"] # "ok"

\* C20: a sale order is never posted (created or edited without an error)
\* while an account its posting refers to - asset, income, COGS, receivable,
\* and commission or discount when that amount is positive - is missing or
\* has a currency other than the receivable's.
C20_PostingNeedsAccounts ==
  ( /\ lastop.op \in {"SaleOrder.create", "SaleOrder.write"}
    /\ lastop.why = "ok"
    /\ lastop.doc \in DOMAIN orders )
  => ~BadAccount(orders[lastop.doc].order_lines[1])

\* the receipts of order oid, and the receipts of orders that no longer exist
ReceiptsFor(oid) == {r \in DOMAIN receipts : receipts[r].sales_order_id = oid}
OrphanReceipts == {r \in DOMAIN receipts : receipts[r].sales_order_id \notin DOMAIN orders}

\* C22: every existing sale order has exactly one sales receipt, and no
\* receipt refers to a sale order that was deleted.
C22_OneReceiptPerOrder ==
  /\ \A oid \in DOMAIN orders : Cardinality(ReceiptsFor(oid)) = 1
  /\ OrphanReceipts = {}

\* the total of the sales payment records linked to receipt r
PaymentsTotal(r) ==
  SumOver([p \in DOMAIN payments |->
             IF payments[p].sales_receipt_id = r THEN payments[p].paid_amount ELSE 0],
          DOMAIN payments)

\* C29: the paid_amount of every sales receipt is the total of the sales
\* payment records linked to it.
C29_PaidIsSumOfPayments ==
  \A r \in DOMAIN receipts : receipts[r].paid_amount = PaymentsTotal(r)

\* units on the lines of the existing sale orders, and units on the lines of
\* the confirmed returns
OrderLineKeys ==
  {y \in (DOMAIN orders) \X (1..MaxLines) : y[2] <= Len(orders[y[1]].order_lines)}
SoldUnits ==
  SumOver([x \in OrderLineKeys |-> orders[x[1]].order_lines[x[2]].quantity], OrderLineKeys)
ReturnedUnits ==
  SumOver([r \in DOMAIN returns |->
             IF returns[r].state = "confirmed"
             THEN returns[r].return_lines[1].returned_quantity ELSE 0],
          DOMAIN returns)

\* C30: the stock of the product is its initial stock less the units on the
\* lines of the existing sale orders plus the units on the lines of the
\* confirmed returns.
C30_StockConservation ==
  stock_quantity = InitStock - SoldUnits + ReturnedUnits

\* C21: a sale order is never posted (created or edited without an error)
\* without a line, and every booking that exists has at least two booking
\* lines.
C21_NoEmptyPosting ==
  /\ ( /\ lastop.op \in {"SaleOrder.create", "SaleOrder.write"}
       /\ lastop.why = "ok"
       /\ lastop.doc \in DOMAIN orders )
     => orders[lastop.doc].order_lines # << >>
  /\ \A b \in DOMAIN bookings : b \in DOMAIN blines /\ Len(blines[b]) >= 2

\* C23: every booking line has exactly one of dr_amount and cr_amount
\* nonzero.
C23_DebitOrCredit ==
  \A b \in DOMAIN blines : \A k \in 1..Len(blines[b]) :
    (blines[b][k].dr_amount # 0) # (blines[b][k].cr_amount # 0)

\* units of order oid on the lines of its confirmed returns
ReturnLineKeys(oid) ==
  {y \in (DOMAIN returns) \X (1..MaxLines) :
     /\ returns[y[1]].sale_order_id = oid
     /\ returns[y[1]].state = "confirmed"
     /\ y[2] <= Len(returns[y[1]].return_lines)}
ReturnedOf(oid) ==
  SumOver([x \in ReturnLineKeys(oid) |-> returns[x[1]].return_lines[x[2]].returned_quantity],
          ReturnLineKeys(oid))

\* C24: for every sale order the units on the lines of its confirmed returns
\* never exceed the quantity of the order line they were sold on.
C24_ReturnedWithinSold ==
  \A oid \in DOMAIN orders :
    ReturnLineKeys(oid) # {} => ReturnedOf(oid) <= orders[oid].order_lines[1].quantity

\* the rows tied to return ret that are left in the ledger, the salesperson
\* transactions and the product movements
TiedToReturn(ret) ==
  /\ \A b \in DOMAIN bookings' : bookings'[b].sale_return_id # ret
  /\ ReturnRows(blines', ret) = {}
  /\ BagToSet(BagSelect(sptrans', LAMBDA t : t.sale_return_id = ret)) = {}
  /\ BagToSet(BagSelect(movements',
                        LAMBDA m : m.movement_type = "in" /\ m.source_document[2] = ret)) = {}

\* the receipt of the order is as the sale left it: nothing returned, nothing paid
ReceiptAsSold(rs, oid) ==
  \A r \in DOMAIN rs :
    rs[r].sales_order_id = oid
      => /\ rs[r].due_amount = order_total(product, orders[oid])
         /\ rs[r].remaining_amount = order_total(product, orders[oid])
         /\ rs[r].payment_status = "pending"

\* C27: deleting a confirmed return right after its confirmation, with
\* nothing paid on the receipt, puts the stock and the receipt's due amount,
\* remaining amount and status back to their values before the confirmation
\* (here: the first return of an order, whose receipt was as the sale left
\* it) and leaves no booking, booking line, salesperson transaction or
\* product movement tied to the return.
C27_ConfirmThenDelete ==
  [][ ( /\ lastop.op = "SaleReturn.action_confirm" /\ lastop.why = "ok"
        /\ lastop'.op = "SaleReturn.unlink" /\ lastop'.why = "ok"
        /\ lastop'.doc = lastop.doc
        /\ ReturnedElsewhere(returns, lastop.doc) = 0
        /\ \A r \in DOMAIN receipts :
             receipts[r].sales_order_id = returns[lastop.doc].sale_order_id
               => receipts[r].paid_amount = 0 )
      => /\ stock_quantity' = stock_quantity - returns[lastop.doc].return_lines[1].returned_quantity
         /\ ReceiptAsSold(receipts', returns[lastop.doc].sale_order_id)
         /\ TiedToReturn(lastop.doc) ]_vars

\* what the bulk payments paid on receipt r, and the payments recorded by
\* action_process_receipt
PaidInBulk(r) ==
  SumOver([p \in DOMAIN payments |->
             IF payments[p].sales_receipt_id = r /\ payments[p].bulk # 0
             THEN payments[p].paid_amount ELSE 0],
          DOMAIN payments)
SinglePayments == {p \in DOMAIN payments : payments[p].bulk = 0}

\* C28: deleting a confirmed bulk payment takes off every receipt what the
\* bulk payment paid on it - paid_amount, remaining_amount and payment_status
\* are as before its confirmation - and removes the payments of the bulk
\* payment only: the payments recorded by action_process_receipt and their
\* bookings remain.
C28_BulkUnlinkRestores ==
  [][ ( /\ lastop'.op = "ReceiptBulkPayment.unlink"
        /\ lastop'.doc \in DOMAIN bulks
        /\ bulks[lastop'.doc].state = "confirmed" )
      => /\ \A r \in DOMAIN receipts :
              /\ r \in DOMAIN receipts'
              /\ receipts'[r].paid_amount = receipts[r].paid_amount - PaidInBulk(r)
              /\ receipts'[r].remaining_amount = receipts[r].remaining_amount + PaidInBulk(r)
              /\ PaidInBulk(r) > 0 => receipts'[r].payment_status = "pending"
         /\ \A p \in SinglePayments :
              /\ p \in DOMAIN payments'
              /\ payments[p].bookings \subseteq DOMAIN bookings' ]_vars

\* return_quantity of the lines of confirmed customer returns on order line
\* k of order oid
CustomerReturned(oid, k) ==
  SumOver([r \in DOMAIN returns |->
             IF returns[r].state = "confirmed" /\ returns[r].sale_order_id = oid
             THEN SumSeq(SeqMap(returns[r].return_lines,
                                LAMBDA l : IF l.sale_order_line_id = k
                                           THEN l.return_quantity ELSE 0))
             ELSE 0],
          DOMAIN returns)

\* C25: for customer sale returns, whatever the order in which several draft
\* returns of one order line were saved and processed, the return_quantity of
\* the lines of confirmed returns adds up to at most the quantity sold on
\* that order line.
C25_CustomerReturnedWithinSold ==
  \A oid \in DOMAIN orders :
    \A k \in 1..Len(orders[oid].order_lines) :
      CustomerReturned(oid, k) <= orders[oid].order_lines[k].quantity

\* unit price times return_quantity, added up over the lines of a return
ReturnAmount(rt) ==
  SumSeq(SeqMap(rt.return_lines, LAMBDA l : Scale * l.price_unit * l.return_quantity))

\* C26: processing a customer sale return, of any number of lines, lowers
\* the due_amount of the order's receipt by the sum over the return's lines
\* of unit price times return_quantity, not below 0, and by no more.
C26_ReceiptUpdatedOnce ==
  [][ ( /\ lastop'.op = "CustomerSaleReturn.action_process"
        /\ lastop'.why = "ok" )
      => \A r \in DOMAIN receipts :
           receipts[r].cusotmer_sale_order_id = returns[lastop'.doc].sale_order_id
             => receipts'[r].due_amount
                  = Max(receipts[r].due_amount - ReturnAmount(returns[lastop'.doc]), 0) ]_vars

====
